---- MODULE Spec2Model ----
(***************************************************************************)
(* Model of the hybrid region-text extraction of the MCQ extraction web     *)
(* app: lib/ocr-utils.ts (OCRExtractor, HybridTextExtractor), the page     *)
(* that calls it and the browser storage the page saves to.                *)
(*                                                                         *)
(* The specifications share the state:                                     *)
(*   Spec        one extractFromBoundingBox call at a time, with its texts *)
(*               and confidences;                                          *)
(*   SpecShared  an OCRExtractor whose initialize, extractTextFromCanvas   *)
(*               and terminate calls overlap, the workers told apart;      *)
(*   SpecPure    single applications of cleanOCRText, of the two math      *)
(*               detectors and of the structured read of a region;         *)
(*   SpecStorage LocalStorage (lib/storage-utils.ts) called directly;      *)
(*   SpecPage    the page Home (pages/index.tsx) with its viewer           *)
(*               (components/PDFViewerWithOverlay.tsx): upload, the mouse  *)
(*               on the overlay, zoom, page navigation, step navigation,   *)
(*               reset, saving, extraction runs;                           *)
(*   SpecPageLive  SpecPage where awaited promises settle.                 *)
(*                                                                         *)
(* Text is a sequence of characters; a character is a one-character        *)
(* string.  A character outside ASCII is written by its code point, e.g.   *)
(* "U+2211" for the summation sign and "U+03B1" for the Greek alpha, and    *)
(* counts as ONE character (one UTF-16 code unit, as in String.length).    *)
(*                                                                         *)
(* Numbers: the code computes in IEEE doubles.  The comparisons of string  *)
(* lengths are computed in exact integer arithmetic by cross-multiplying   *)
(* (a > b*0.8 as 10*a > 8*b), which agrees with the doubles: n*0.8 rounds  *)
(* to the integer 4n/5 whenever that is an integer, and n*1.5 is exact.    *)
(* The native region of a raster box is computed with the roundings of     *)
(* the doubles (RoundToDouble).                                            *)
(***************************************************************************)
EXTENDS Integers, Sequences, FiniteSets, TLC

(***************************************************************************)
(* Character classes of the regular expressions.                           *)
(***************************************************************************)
Lower == {"a", "b", "c", "d", "e", "f", "g", "h", "i", "j", "k", "l", "m",
          "n", "o", "p", "q", "r", "s", "t", "u", "v", "w", "x", "y", "z"}

Upper == {"A", "B", "C", "D", "E", "F", "G", "H", "I", "J", "K", "L", "M",
          "N", "O", "P", "Q", "R", "S", "T", "U", "V", "W", "X", "Y", "Z"}

Digit == {"0", "1", "2", "3", "4", "5", "6", "7", "8", "9"}

\* \s of a JavaScript regular expression, which is also what trim() strips:
\* tab, LF, VT, FF, CR, space, NBSP, the Unicode space separators, the line
\* and paragraph separators and the byte order mark (25 code units).
Whitespace ==
  {"\t", "\n", "U+000B", "\f", "\r", " ", "U+00A0", "U+1680",
   "U+2000", "U+2001", "U+2002", "U+2003", "U+2004", "U+2005", "U+2006",
   "U+2007", "U+2008", "U+2009", "U+200A",
   "U+2028", "U+2029", "U+202F", "U+205F", "U+3000", "U+FEFF"}

\* \w
WordChar == Lower \cup Upper \cup Digit \cup {"_"}

\* [a-zA-Z]
Letter == Lower \cup Upper

\* [∑∫∞√≤≥≠±÷×∝∈∉⊆⊇∪∩]
MathSymbols == {"U+2211", "U+222B", "U+221E", "U+221A", "U+2264", "U+2265",
                "U+2260", "U+00B1", "U+00F7", "U+00D7", "U+221D", "U+2208",
                "U+2209", "U+2286", "U+2287", "U+222A", "U+2229"}

\* [αβγδεζηθικλμνξοπρστυφχψω]
GreekLetters == {"U+03B1", "U+03B2", "U+03B3", "U+03B4", "U+03B5", "U+03B6",
                 "U+03B7", "U+03B8", "U+03B9", "U+03BA", "U+03BB", "U+03BC",
                 "U+03BD", "U+03BE", "U+03BF", "U+03C0", "U+03C1", "U+03C3",
                 "U+03C4", "U+03C5", "U+03C6", "U+03C7", "U+03C8", "U+03C9"}

\* (sin|cos|tan|log|ln|exp|lim|max|min)
MathWords == {<<"s", "i", "n">>, <<"c", "o", "s">>, <<"t", "a", "n">>,
              <<"l", "o", "g">>, <<"l", "n">>, <<"e", "x", "p">>,
              <<"l", "i", "m">>, <<"m", "a", "x">>, <<"m", "i", "n">>}

LowerSeq == <<"a", "b", "c", "d", "e", "f", "g", "h", "i", "j", "k", "l", "m",
              "n", "o", "p", "q", "r", "s", "t", "u", "v", "w", "x", "y", "z">>

\* The /i flag: letters compare without case.
ToLower(c) ==
  LET UpperSeq == <<"A", "B", "C", "D", "E", "F", "G", "H", "I", "J", "K",
                    "L", "M", "N", "O", "P", "Q", "R", "S", "T", "U", "V",
                    "W", "X", "Y", "Z">>
  IN  IF c \in Upper
        THEN LowerSeq[CHOOSE k \in 1..26 : UpperSeq[k] = c]
        ELSE c

\* n copies of the character c
Rep(c, n) == [k \in 1..n |-> c]

(***************************************************************************)
(* Scanning helpers: the index of the first character at or after i that   *)
(* is not in the class (Len(t)+1 if there is none).  This is where a       *)
(* greedy \s* or \d+ or [|_]+ that starts at i stops.                      *)
(***************************************************************************)
RECURSIVE SkipClass(_, _, _)
SkipClass(t, i, class) ==
  IF i > Len(t) \/ t[i] \notin class THEN i ELSE SkipClass(t, i + 1, class)

\* String.prototype.trim
Trim(t) ==
  LET keep == {k \in 1..Len(t) : t[k] \notin Whitespace}
  IN  IF keep = {} THEN <<>>
      ELSE LET lo == CHOOSE k \in keep : \A m \in keep : k <= m
               hi == CHOOSE k \in keep : \A m \in keep : k >= m
           IN  SubSeq(t, lo, hi)

(***************************************************************************)
(* OCRExtractor.cleanOCRText: nine global replacements and a trim, each    *)
(* replacement scanning left to right over non-overlapping matches.        *)
(***************************************************************************)
\* .replace(/\s+/g, ' ')
RECURSIVE CollapseWhitespace(_, _)
CollapseWhitespace(t, i) ==
  IF i > Len(t) THEN <<>>
  ELSE IF t[i] \in Whitespace
    THEN <<" ">> \o CollapseWhitespace(t, SkipClass(t, i, Whitespace))
    ELSE <<t[i]>> \o CollapseWhitespace(t, i + 1)

\* .replace(/(\d+)\s*\.\s*([A-Z])/g, '$1. $2')
RECURSIVE FixNumbering(_, _)
FixNumbering(t, i) ==
  IF i > Len(t) THEN <<>>
  ELSE
    LET j == SkipClass(t, i, Digit)
        k == SkipClass(t, j, Whitespace)
        l == SkipClass(t, k + 1, Whitespace)
        matches == /\ t[i] \in Digit
                   /\ k <= Len(t) /\ t[k] = "."
                   /\ l <= Len(t) /\ t[l] \in Upper
    IN  IF matches
          THEN SubSeq(t, i, j - 1) \o <<".", " ", t[l]>> \o FixNumbering(t, l + 1)
          ELSE <<t[i]>> \o FixNumbering(t, i + 1)

\* .replace(/([a-z])\s*\)\s*/g, '$1) ')
RECURSIVE FixLettering(_, _)
FixLettering(t, i) ==
  IF i > Len(t) THEN <<>>
  ELSE
    LET k == SkipClass(t, i + 1, Whitespace)
        matches == t[i] \in Lower /\ k <= Len(t) /\ t[k] = ")"
    IN  IF matches
          THEN <<t[i], ")", " ">>
                 \o FixLettering(t, SkipClass(t, k + 1, Whitespace))
          ELSE <<t[i]>> \o FixLettering(t, i + 1)

\* .replace(/\|\s*/g, 'I')
RECURSIVE FixPipes(_, _)
FixPipes(t, i) ==
  IF i > Len(t) THEN <<>>
  ELSE IF t[i] = "|"
    THEN <<"I">> \o FixPipes(t, SkipClass(t, i + 1, Whitespace))
    ELSE <<t[i]>> \o FixPipes(t, i + 1)

\* .replace(/0/g, 'O').replace(/5/g, 'S')
FixDigits(t) ==
  [k \in 1..Len(t) |-> IF t[k] = "0" THEN "O"
                       ELSE IF t[k] = "5" THEN "S" ELSE t[k]]

\* .replace(/\s*\$\s*/g, '$')
RECURSIVE TightenDollars(_, _)
TightenDollars(t, i) ==
  IF i > Len(t) THEN <<>>
  ELSE
    LET j == SkipClass(t, i, Whitespace)
    IN  IF j <= Len(t) /\ t[j] = "$"
          THEN <<"$">> \o TightenDollars(t, SkipClass(t, j + 1, Whitespace))
          ELSE <<t[i]>> \o TightenDollars(t, i + 1)

\* .replace(/\\\s+/g, '\\')
RECURSIVE TightenBackslashes(_, _)
TightenBackslashes(t, i) ==
  IF i > Len(t) THEN <<>>
  ELSE IF t[i] = "\\" /\ i + 1 <= Len(t) /\ t[i + 1] \in Whitespace
    THEN <<"\\">> \o TightenBackslashes(t, SkipClass(t, i + 1, Whitespace))
    ELSE <<t[i]>> \o TightenBackslashes(t, i + 1)

\* .replace(/[|_]+/g, ' ')
RECURSIVE RemoveArtifacts(_, _)
RemoveArtifacts(t, i) ==
  IF i > Len(t) THEN <<>>
  ELSE IF t[i] \in {"|", "_"}
    THEN <<" ">> \o RemoveArtifacts(t, SkipClass(t, i, {"|", "_"}))
    ELSE <<t[i]>> \o RemoveArtifacts(t, i + 1)

cleanOCRText(text) ==
  LET s1 == CollapseWhitespace(text, 1)
      s2 == FixNumbering(s1, 1)
      s3 == FixLettering(s2, 1)
      s4 == FixPipes(s3, 1)
      s5 == FixDigits(s4)
      s6 == TightenDollars(s5, 1)
      s7 == TightenBackslashes(s6, 1)
      s8 == RemoveArtifacts(s7, 1)
  IN  Trim(s8)

(***************************************************************************)
(* The patterns of the two math detectors.  Every pattern is a fresh       *)
(* RegExp object on each call, so test() always searches from index 0.     *)
(***************************************************************************)
\* /\$[^$]+\$/
HasInlineMath(t) ==
  \E i \in 1..Len(t) : \E j \in (i + 2)..Len(t) :
    /\ t[i] = "$" /\ t[j] = "$"
    /\ \A k \in (i + 1)..(j - 1) : t[k] # "$"

\* /\\[a-zA-Z]+/
HasCommand(t) ==
  \E i \in 1..(Len(t) - 1) : t[i] = "\\" /\ t[i + 1] \in Letter

\* /\\[a-zA-Z]+\{[^}]*\}/
HasCommandWithArg(t) ==
  \E i \in 1..(Len(t) - 1) :
    /\ t[i] = "\\" /\ t[i + 1] \in Letter
    /\ LET j == SkipClass(t, i + 1, Letter)
       IN  /\ j <= Len(t) /\ t[j] = "{"
           /\ \E k \in (j + 1)..Len(t) : t[k] = "}"

\* /\^[\w{}]+/ and /_[\w{}]+/ : the marker, then a word character or a brace
HasMarkerWord(t, marker) ==
  \E i \in 1..(Len(t) - 1) :
    t[i] = marker /\ t[i + 1] \in (WordChar \cup {"{", "}"})

\* /\^[^{\s]+/ and /_[^{\s]+/ : the marker, then anything but '{' and space
HasMarkerToken(t, marker) ==
  \E i \in 1..(Len(t) - 1) :
    t[i] = marker /\ t[i + 1] \notin (Whitespace \cup {"{"})

\* /\^{[^}]+}/ and /_{[^}]+}/ : the marker and a non-empty braced group
HasMarkerGroup(t, marker) ==
  \E i \in 1..(Len(t) - 3) :
    /\ t[i] = marker /\ t[i + 1] = "{" /\ t[i + 2] # "}"
    /\ \E k \in (i + 3)..Len(t) : t[k] = "}"

\* /[∑∫∞√≤≥≠±÷×∝∈∉⊆⊇∪∩]/
HasMathSymbol(t) == \E i \in 1..Len(t) : t[i] \in MathSymbols

\* /[αβγδεζηθικλμνξοπρστυφχψω]/
HasGreek(t) == \E i \in 1..Len(t) : t[i] \in GreekLetters

\* /\b(sin|cos|tan|log|ln|exp|lim|max|min)\b/i
HasMathWord(t) ==
  \E w \in MathWords : \E i \in 1..(Len(t) - Len(w) + 1) :
    /\ \A k \in 1..Len(w) : ToLower(t[i + k - 1]) = w[k]
    /\ (i = 1 \/ t[i - 1] \notin WordChar)
    /\ (i + Len(w) > Len(t) \/ t[i + Len(w)] \notin WordChar)

detectMathContentNoWords(text) ==
  \/ HasInlineMath(text)
  \/ HasCommand(text)
  \/ HasMarkerWord(text, "^")
  \/ HasMarkerWord(text, "_")
  \/ HasMathSymbol(text)
  \/ HasGreek(text)

\* OCRExtractor.detectMathContent
detectMathContent(text) ==
  \/ HasInlineMath(text)
  \/ HasCommand(text)
  \/ HasMarkerWord(text, "^")
  \/ HasMarkerWord(text, "_")
  \/ HasMathSymbol(text)
  \/ HasGreek(text)
  \/ HasMathWord(text)

\* HybridTextExtractor.detectLatex
detectLatex(text) ==
  \/ HasInlineMath(text)
  \/ HasCommandWithArg(text)
  \/ HasCommand(text)
  \/ HasMarkerToken(text, "^")
  \/ HasMarkerToken(text, "_")
  \/ HasMarkerGroup(text, "^")
  \/ HasMarkerGroup(text, "_")
  \/ HasMathSymbol(text)
  \/ HasGreek(text)

(***************************************************************************)
(* detectLatex with the state of its RegExp objects.  Seven of its         *)
(* patterns carry the g flag: test() on such an object starts at its       *)
(* lastIndex, leaves lastIndex at the end of the match, and resets it to 0 *)
(* when nothing matches.  lastIndex counts characters from 0; indexes of   *)
(* the text count from 1, so a match that ends at index e leaves           *)
(* lastIndex = e.                                                          *)
(***************************************************************************)
\* the first index at or after i whose character is in class stop
\* (Len(t)+1 if there is none)
RECURSIVE SkipUntil(_, _, _)
SkipUntil(t, i, stop) ==
  IF i > Len(t) \/ t[i] \in stop THEN i ELSE SkipUntil(t, i + 1, stop)

\* the patterns with the g flag, in the order of the array
GlobalPatterns == {"inline", "commandWithArg", "command", "supToken",
                   "subToken", "supGroup", "subGroup"}

PatternOrder == <<"inline", "commandWithArg", "command", "supToken",
                  "subToken", "supGroup", "subGroup">>

\* the index at which a match of pattern p that starts at index i ends,
\* or 0 if the pattern does not match at i
MatchEndAt(p, t, i) ==
  LET marker == IF p \in {"supToken", "supGroup"} THEN "^" ELSE "_"
  IN  CASE p = "inline" ->
             IF t[i] = "$"
               THEN LET j == SkipUntil(t, i + 1, {"$"})
                    IN  IF j >= i + 2 /\ j <= Len(t) THEN j ELSE 0
               ELSE 0
        [] p = "commandWithArg" ->
             IF t[i] = "\\" /\ i + 1 <= Len(t) /\ t[i + 1] \in Letter
               THEN LET k == SkipClass(t, i + 1, Letter)
                        e == SkipUntil(t, k + 1, {"}"})
                    IN  IF k <= Len(t) /\ t[k] = "{" /\ e <= Len(t)
                          THEN e ELSE 0
               ELSE 0
        [] p = "command" ->
             IF t[i] = "\\" /\ i + 1 <= Len(t) /\ t[i + 1] \in Letter
               THEN SkipClass(t, i + 1, Letter) - 1
               ELSE 0
        [] p \in {"supToken", "subToken"} ->
             IF /\ t[i] = marker /\ i + 1 <= Len(t)
                /\ t[i + 1] \notin (Whitespace \cup {"{"})
               THEN SkipUntil(t, i + 1, Whitespace \cup {"{"}) - 1
               ELSE 0
        [] p \in {"supGroup", "subGroup"} ->
             IF /\ t[i] = marker /\ i + 2 <= Len(t)
                /\ t[i + 1] = "{" /\ t[i + 2] # "}"
               THEN LET e == SkipUntil(t, i + 3, {"}"})
                    IN  IF e <= Len(t) THEN e ELSE 0
               ELSE 0

\* pattern.test(text) on an object whose lastIndex is from: the lastIndex it
\* leaves, which is 0 exactly when test returns false
RECURSIVE TestFrom(_, _, _)
TestFrom(p, t, from) ==
  IF from + 1 > Len(t) THEN 0
  ELSE IF MatchEndAt(p, t, from + 1) # 0 THEN MatchEndAt(p, t, from + 1)
  ELSE TestFrom(p, t, from + 1)

\* latexPatterns.some(pattern => pattern.test(text)) from the k-th pattern
\* on; lastIndex is the state of the seven objects
RECURSIVE SomePatternFrom(_, _, _)
SomePatternFrom(k, t, lastIndex) ==
  IF k > Len(PatternOrder)
    THEN [result |-> HasMathSymbol(t) \/ HasGreek(t), lastIndex |-> lastIndex]
    ELSE LET p == PatternOrder[k]
             end == TestFrom(p, t, lastIndex[p])
         IN  IF end # 0
               THEN [result |-> TRUE,
                     lastIndex |-> [lastIndex EXCEPT ![p] = end]]
               ELSE SomePatternFrom(k + 1, t, [lastIndex EXCEPT ![p] = 0])

latexPatternsKept(previous) == previous

\* const latexPatterns = [ ... ]: the literals are evaluated on every call,
\* so the call works on new objects whatever the previous call left
latexPatterns(previous) == [p \in GlobalPatterns |-> 0]

\* one call of detectLatex after a call that left the objects in previous
detectLatexCall(text, previous) ==
  SomePatternFrom(1, text, latexPatterns(previous))

(***************************************************************************)
(* Policy constants of the reconciliation.                                 *)
(***************************************************************************)
\* pdfText.length > 10
MinPdfLength == 10

\* pdfConfidence > 90
MinPdfConfidence == 90

\* pdfConfidence = pdfText.length > 0 ? 95 : 0
PdfHitConfidence == 95

\* ocrResult.confidence > 60
MinOcrConfidence == 60

\* pdfText.length > ocrText.length * 0.8, in tenths
PdfRatioTenths == 8

\* ocrText.length > pdfText.length * 1.5, in tenths
OcrRatioTenths == 15

\* 'Unable to extract text'
Placeholder == <<"U", "n", "a", "b", "l", "e", " ", "t", "o", " ", "e", "x",
                 "t", "r", "a", "c", "t", " ", "t", "e", "x", "t">>

Max(a, b) == IF a >= b THEN a ELSE b

(***************************************************************************)
(* HybridTextExtractor.combineTextResults                                   *)
(***************************************************************************)
combineTextResultsGE(pdfText, ocrText) ==
  IF Len(pdfText) * 10 >= Len(ocrText) * PdfRatioTenths THEN pdfText
  ELSE IF Len(ocrText) * 10 > Len(pdfText) * OcrRatioTenths THEN ocrText
  ELSE pdfText \o <<" ">> \o ocrText

combineTextResultsOcrGE(pdfText, ocrText) ==
  IF Len(pdfText) * 10 > Len(ocrText) * PdfRatioTenths THEN pdfText
  ELSE IF Len(ocrText) * 10 >= Len(pdfText) * OcrRatioTenths THEN ocrText
  ELSE pdfText \o <<" ">> \o ocrText

combineTextResults(pdfText, ocrText) ==
  IF Len(pdfText) * 10 > Len(ocrText) * PdfRatioTenths THEN pdfText
  ELSE IF Len(ocrText) * 10 > Len(pdfText) * OcrRatioTenths THEN ocrText
  ELSE pdfText \o <<" ">> \o ocrText

(***************************************************************************)
(* The structured (PDF text layer) read of extractFromBoundingBox.          *)
(*                                                                         *)
(* A scale is the double num/den, den a power of two (1.5 is 3/2), and     *)
(* viewport.height is the page's native height times the scale, which is   *)
(* exact.  The native region is computed in doubles: every field is a      *)
(* quotient n/num rounded to 53 significant bits, and the two upper bounds *)
(* are sums of two such quotients, rounded again.  A double near n/num is  *)
(* written <<n, err>> and stands for n/num + err/(num * 2^60): err is the  *)
(* rounding error, in units fine enough to hold it exactly for the         *)
(* magnitudes of a page (1/256 to 4096, num below 256).                    *)
(***************************************************************************)
\* 2^k modulo m
RECURSIVE PowMod(_, _)
PowMod(k, m) == IF k = 0 THEN 1 % m ELSE (2 * PowMod(k - 1, m)) % m

\* the double nearest to n/num + err/(num * 2^60), ties to the even
\* significand: with e the binary exponent of the value, the doubles around
\* it are the multiples of 2^(e-52); r and odd are the remainder and the
\* parity of the quotient of n * 2^(52-e) by num
RECURSIVE RoundToDouble(_, _, _)
RoundToDouble(n, err, num) ==
  IF n = 0 THEN <<0, err>>
  ELSE IF n < 0
    THEN LET d == RoundToDouble(-n, -err, num) IN <<-d[1], -d[2]>>
  ELSE
    LET Reaches(e) == IF e >= 0 THEN num * 2^e <= n ELSE num <= n * 2^(-e)
        top     == CHOOSE e \in -8..12 : Reaches(e) /\ ~Reaches(e + 1)
        onPower == IF top >= 0 THEN num * 2^top = n ELSE num = n * 2^(-top)
        e       == IF onPower /\ err < 0 THEN top - 1 ELSE top
        ulp     == 2^(e + 8)
        r       == ((n % num) * PowMod(52 - e, num)) % num
        r2      == ((n % (2 * num)) * PowMod(52 - e, 2 * num)) % (2 * num)
        odd     == ((r2 - r) \div num) % 2
        a       == r * ulp + err
        b       == num * ulp
        down    == a \div b
        rest    == a % b
        m       == IF 2 * rest < b THEN down
                   ELSE IF 2 * rest > b THEN down + 1
                   ELSE IF (odd + down) % 2 = 0 THEN down
                   ELSE down + 1
    IN  <<n, (m * num - r) * ulp>>

pdfBboxNoFlip(pageHeight, bbox, scale) ==
  [x      |-> RoundToDouble(bbox.x * scale.den, 0, scale.num),
   y      |-> RoundToDouble(bbox.y * scale.den, 0, scale.num),
   width  |-> RoundToDouble(bbox.width * scale.den, 0, scale.num),
   height |-> RoundToDouble(bbox.height * scale.den, 0, scale.num)]

\* pdfBbox = { x: bbox.x/scale, y: (viewport.height - bbox.y - bbox.height)/scale,
\*             width: bbox.width/scale, height: bbox.height/scale }
pdfBbox(pageHeight, bbox, scale) ==
  [x      |-> RoundToDouble(bbox.x * scale.den, 0, scale.num),
   y      |-> RoundToDouble(pageHeight * scale.num
                              - (bbox.y + bbox.height) * scale.den,
                            0, scale.num),
   width  |-> RoundToDouble(bbox.width * scale.den, 0, scale.num),
   height |-> RoundToDouble(bbox.height * scale.den, 0, scale.num)]

\* a membership test that leaves out the anchors on the lower bounds
ItemInsideStrict(item, box, scale) ==
  /\ item.transform # <<>>
  /\ LET x     == item.transform[5] * scale.num
         y     == item.transform[6] * scale.num
         right == RoundToDouble(box.x[1] + box.width[1],
                                box.x[2] + box.width[2], scale.num)
         upper == RoundToDouble(box.y[1] + box.height[1],
                                box.y[2] + box.height[2], scale.num)
     IN  /\ x > box.x[1] \/ (x = box.x[1] /\ box.x[2] < 0)
         /\ x < right[1] \/ (x = right[1] /\ right[2] >= 0)
         /\ y > box.y[1] \/ (y = box.y[1] /\ box.y[2] < 0)
         /\ y < upper[1] \/ (y = upper[1] /\ upper[2] >= 0)

\* the membership test of one text item; item.transform = <<>> stands for
\* an item without a transform.  The anchors are whole numbers; a whole
\* number v compares with the double <<n, err>> as v * num with n, and as 0
\* with err when these are equal.
ItemInside(item, box, scale) ==
  /\ item.transform # <<>>
  /\ LET x     == item.transform[5] * scale.num
         y     == item.transform[6] * scale.num
         right == RoundToDouble(box.x[1] + box.width[1],
                                box.x[2] + box.width[2], scale.num)
         upper == RoundToDouble(box.y[1] + box.height[1],
                                box.y[2] + box.height[2], scale.num)
     IN  /\ x > box.x[1] \/ (x = box.x[1] /\ box.x[2] <= 0)
         /\ x < right[1] \/ (x = right[1] /\ right[2] >= 0)
         /\ y > box.y[1] \/ (y = box.y[1] /\ box.y[2] <= 0)
         /\ y < upper[1] \/ (y = upper[1] /\ upper[2] >= 0)

\* textContent.items.forEach(... pdfText += item.str + ' ' ...)
RECURSIVE AppendItems(_, _, _, _)
AppendItems(items, i, box, scale) ==
  IF i > Len(items) THEN <<>>
  ELSE (IF ItemInside(items[i], box, scale)
          THEN items[i].str \o <<" ">>
          ELSE <<>>)
       \o AppendItems(items, i + 1, box, scale)

\* pdfText after the forEach and the trim
StructuredText(page, bbox, scale) ==
  Trim(AppendItems(page.items, 1,
                   pdfBbox(page.height, bbox, scale), scale))

\* pdfConfidence = pdfText.length > 0 ? 95 : 0
StructuredConfidence(pdfText) ==
  IF Len(pdfText) > 0 THEN PdfHitConfidence ELSE 0

(***************************************************************************)
(* The decisions and outcomes of extractFromBoundingBox.                    *)
(***************************************************************************)
ShortCircuitOffByOne(pdfText, pdfConfidence) ==
  Len(pdfText) > MinPdfLength + 1 /\ pdfConfidence > MinPdfConfidence

ShortCircuitHighBar(pdfText, pdfConfidence) ==
  Len(pdfText) > MinPdfLength /\ pdfConfidence > PdfHitConfidence

ShortCircuitFromTen(pdfText, pdfConfidence) ==
  Len(pdfText) >= MinPdfLength /\ pdfConfidence > MinPdfConfidence

\* if (pdfText.length > 10 && pdfConfidence > 90)
ShortCircuit(pdfText, pdfConfidence) ==
  Len(pdfText) > MinPdfLength /\ pdfConfidence > MinPdfConfidence

\* the return of the short circuit
PdfOutcome(pdfText, pdfConfidence) ==
  [text       |-> pdfText,
   method     |-> "pdf",
   confidence |-> pdfConfidence,
   hasLatex   |-> detectLatex(pdfText)]

UsableAtAnyConfidence(ocrResult) == ocrResult.confidence >= 0

UsableInclusive(ocrResult) == ocrResult.confidence >= MinOcrConfidence

\* if (ocrResult.confidence > 60)
Usable(ocrResult) == ocrResult.confidence > MinOcrConfidence

HybridOutcomeOcrConfidence(pdfText, pdfConfidence, ocrResult) ==
  [text       |-> combineTextResults(pdfText, ocrResult.text),
   method     |-> "hybrid",
   confidence |-> ocrResult.confidence,
   hasLatex   |-> ocrResult.hasLatex \/ detectLatex(pdfText)]

\* the return for two non-empty sources
HybridOutcome(pdfText, pdfConfidence, ocrResult) ==
  [text       |-> combineTextResults(pdfText, ocrResult.text),
   method     |-> "hybrid",
   confidence |-> Max(pdfConfidence, ocrResult.confidence),
   hasLatex   |-> ocrResult.hasLatex \/ detectLatex(pdfText)]

\* the return of the recognized text alone
OcrOutcome(ocrResult) ==
  [text       |-> ocrResult.text,
   method     |-> "ocr",
   confidence |-> ocrResult.confidence,
   hasLatex   |-> ocrResult.hasLatex]

FallbackNoPlaceholder(pdfText, pdfConfidence) ==
  [text       |-> pdfText,
   method     |-> IF pdfText # <<>> THEN "pdf" ELSE "ocr",
   confidence |-> pdfConfidence,
   hasLatex   |-> detectLatex(pdfText)]

FallbackZeroConfidence(pdfText, pdfConfidence) ==
  [text       |-> IF pdfText # <<>> THEN pdfText ELSE Placeholder,
   method     |-> IF pdfText # <<>> THEN "pdf" ELSE "ocr",
   confidence |-> 0,
   hasLatex   |-> detectLatex(pdfText)]

FallbackNeverMath(pdfText, pdfConfidence) ==
  [text       |-> IF pdfText # <<>> THEN pdfText ELSE Placeholder,
   method     |-> IF pdfText # <<>> THEN "pdf" ELSE "ocr",
   confidence |-> IF pdfConfidence # 0 THEN pdfConfidence ELSE 0,
   hasLatex   |-> FALSE]

FallbackRethrows(pdfText, pdfConfidence) ==
  [text       |-> <<>>,
   method     |-> "rejected",
   confidence |-> 0,
   hasLatex   |-> FALSE]

\* "Fallback to whatever we have"
Fallback(pdfText, pdfConfidence) ==
  [text       |-> IF pdfText # <<>> THEN pdfText ELSE Placeholder,
   method     |-> IF pdfText # <<>> THEN "pdf" ELSE "ocr",
   confidence |-> IF pdfConfidence # 0 THEN pdfConfidence ELSE 0,
   hasLatex   |-> detectLatex(pdfText)]

\* the try block around the recognizer, once extractTextFromCanvas resolved
Reconcile(pdfText, pdfConfidence, ocrResult) ==
  IF Usable(ocrResult)
    THEN IF Len(pdfText) > 0 /\ Len(ocrResult.text) > 0
           THEN HybridOutcome(pdfText, pdfConfidence, ocrResult)
           ELSE OcrOutcome(ocrResult)
    ELSE Fallback(pdfText, pdfConfidence)

\* the value extractTextFromCanvas resolves with when recognize returned
RecognizedResult(rawText, confidence) ==
  LET text == cleanOCRText(rawText)
  IN  [text |-> text, confidence |-> confidence,
       hasLatex |-> detectMathContent(text)]

\* the value extractTextFromCanvas resolves with when recognize threw
FailedResult == [text |-> <<>>, confidence |-> 0, hasLatex |-> FALSE]

(***************************************************************************)
(* The inputs the model draws from.                                        *)
(***************************************************************************)
\* transform of a text item anchored at (x, y)
At(x, y) == <<1, 0, 0, 1, x, y>>

\* Page 1 carries a text layer: one row of fragments of 3, 6, 4, 16 and 90
\* characters, a formula, a fragment without a transform, a blank one,
\* one that reads like the placeholder and one that reads like its first
\* two words.
\* Page 2 is a scanned page: no text layer.
Pdf ==
  << [height |-> 60,
      items  |-> << [str |-> <<"a", "a", "a">>,      transform |-> At(0, 40)],
                    [str |-> Rep("b", 6),            transform |-> At(10, 40)],
                    [str |-> Rep("c", 4),            transform |-> At(20, 40)],
                    [str |-> Rep("d", 16),           transform |-> At(30, 40)],
                    [str |-> Rep("e", 90),           transform |-> At(40, 40)],
                    [str |-> <<"$", "x", "^", "2", "$">>,
                                                     transform |-> At(50, 40)],
                    [str |-> <<"z", "z">>,           transform |-> <<>>],
                    [str |-> <<" ">>,                transform |-> At(50, 40)],
                    [str |-> Placeholder,            transform |-> At(60, 40)],
                    [str       |-> SubSeq(Placeholder, 1, 9),
                     transform |-> At(80, 40)] >>],
     [height |-> 60,
      items  |-> << >>] >>

\* render scales, as num/den: the caller's 1.5, and 1
Scales == {[num |-> 3, den |-> 2], [num |-> 1, den |-> 1]}

\* raw recognizer output (data.text)
RawTexts ==
  { <<>>,
    <<" ">>,
    <<"a", "b">>,
    <<"a", "b", "c">>,
    <<"a", "b", "c", "d">>,
    <<"s", "i", "n", " ", "x">>,
    <<"1", " ", ".", " ", "A">>,
    <<"a", " ", ")", "b">>,
    <<"|", " ", "x", "0", "5">>,
    <<"x", "_", "y">>,
    <<"$", " ", "x", " ", "$">>,
    <<"\\", " ", "p", "i">>,
    <<"U+03B1", "+", "1">>,
    Placeholder,
    SubSeq(Placeholder, 11, 22),
    Rep("r", 10), Rep("r", 12), Rep("r", 13), Rep("r", 16), Rep("r", 20) }

\* lengths of the texts the merge rule is applied to directly
MaxCombineLen == 24

CombineTexts(c) ==
  {Rep(c, n) : n \in 1..MaxCombineLen} \cup {Rep(c, 90)}

\* A page whose fragments are anchored on a grid around the regions below:
\* one fragment on every bound, inside and just outside of the native region
\* of the raster box (15, 15, 15, 30) at scale 1.5, which is [10, 20] by
\* [30, 50].  The fragments are single letters in list order; three carry
\* surrounding blanks, one of them an em space, and one has no transform.
ProbePage ==
  LET ProbeXs == <<9, 10, 15, 20, 21>>
      ProbeYs == <<29, 30, 40, 50, 51>>
      ProbeStr(k) ==
        IF k = 6 THEN <<"U+2003", LowerSeq[k]>>
        ELSE IF k = 7 THEN <<" ", LowerSeq[k]>>
        ELSE IF k = 19 THEN <<LowerSeq[k], " ">>
        ELSE <<LowerSeq[k]>>
  IN  [height |-> 60,
       items  |-> [k \in 1..(Len(ProbeXs) * Len(ProbeYs)) |->
                     [str       |-> ProbeStr(k),
                      transform |->
                        At(ProbeXs[((k - 1) % Len(ProbeXs)) + 1],
                           ProbeYs[((k - 1) \div Len(ProbeXs)) + 1])]]
                  \o << [str |-> <<"z", "z">>, transform |-> <<>>] >>]

\* regions in raster pixels for the probe page, some anchored at raster y = 0
\* and some, of height 98, reaching below the raster of 90 rows
ProbeBoxes ==
  {[x |-> bx, y |-> by, width |-> bw, height |-> bh] :
     bx \in {0, 15}, by \in {0, 15}, bw \in {0, 15, 30}, bh \in {0, 30, 98}}

\* all sequences over alphabet of length at most n
SeqsUpTo(alphabet, n) == UNION {[1..k -> alphabet] : k \in 0..n}

\* length of the strings cleanOCRText is applied to exhaustively
MaxCleanLen == 5

\* recognizer output given to cleanOCRText: every string of letters, blanks,
\* underscores, digits and dots up to MaxCleanLen, and the raw texts above
CleanTexts ==
  SeqsUpTo({"a", " ", "_", "5", "."}, MaxCleanLen)
    \cup {<<"a", " ", "_", " ", "b">>, <<"a", " ", "|", " ", "b">>,
          <<"x", "U+2003", "y">>, <<"U+3000", "a">>, <<"U+3000">>,
          <<"1", "U+00A0", ".", "U+2009", "A">>}
    \cup RawTexts

\* length of the strings the detectors are applied to exhaustively
MaxDetectLen == 4

\* texts given to the detectors: every string of the markers' characters up
\* to MaxDetectLen, and some words, formulas and symbols
DetectTexts ==
  SeqsUpTo({"$", "\\", "^", "_", "{", "}", "x", " "}, MaxDetectLen)
    \cup { <<"$", "x", "^", "2", "+", "1", "$">>,
           <<"\\", "a", "l", "p", "h", "a">>,
           <<"t", "h", "e", " ", "c", "a", "t", " ", "s", "a", "t">>,
           <<"s", "i", "n", " ", "x">>,
           <<"S", "i", "n", "(", "x", ")">>,
           <<"s", "i", "n", "e">>,
           <<"a", " ", "m", "a", "x", " ", "b">>,
           <<"l", "n">>,
           <<"x", "^", "+">>,
           <<"x", "_", "-", "1">>,
           <<"\\", "f", "{", "x", "}">>,
           <<"U+03B1">>,
           <<"a", "U+2264", "b">>,
           <<"U+03C2">>,
           <<"U+0394">>,
           <<"^", "U+2003">>,
           <<"x", "_", "U+3000", "y">>,
           <<"$", "U+2003", "$">> }

\* texts detectLatex is called on twice in a row
RepeatTexts ==
  { <<"\\", "a">>,
    <<"$", "x", "$">>,
    <<"$", "x", "$", " ", "$", "y", "$">>,
    <<"x", "^", "2">>,
    <<"x", "^", "2", " ", "y", "^", "2">>,
    <<"a", "_", "b">>,
    <<"x", "^", "{", "a", "}">>,
    <<"x", "_", "{", "a", "}">>,
    <<"\\", "f", "{", "x", "}">>,
    <<"$", "$">>,
    <<"U+03B1">>,
    <<"a", "U+2264", "b">>,
    <<"t", "h", "e", " ", "c", "a", "t">>,
    <<>> }

(***************************************************************************)
(* State.                                                                  *)
(***************************************************************************)
VARIABLES
  worker,          \* OCRExtractor.worker: "null" or "live"
  isInitialized,   \* OCRExtractor.isInitialized
  tpc,             \* position of a terminate() call: "idle" or "terminating"
  pc,              \* position of the call in progress
  args,            \* arguments of the extractFromBoundingBox call in progress
  pdfText,         \* local pdfText
  pdfConfidence,   \* local pdfConfidence
  pdfThrew,        \* the structured read threw (the first catch ran)
  ocrResult,       \* what extractTextFromCanvas resolved with, or NoResult
  ocrFault,        \* where the recognizer path failed, or "none"
  extractCalls,    \* calls of extractTextFromCanvas in this call
  recognizeCalls,  \* calls of worker.recognize in this call
  outcome,         \* what extractFromBoundingBox resolved with, or NoOutcome
  merge,           \* a direct application of combineTextResults, or NoMerge
  \* an OCRExtractor used by several callers at once, workers told apart
  sharedWorker,      \* this.worker: 0 (null) or the number of a worker
  sharedInitialized, \* this.isInitialized
  callers,           \* each caller's operation, position and pending worker
  teardown,          \* the terminate() call: position and worker awaited
  createCalls,       \* calls of Tesseract.createWorker so far
  workers,           \* each worker: status, calls of its terminate()
  history,           \* what has happened so far (overlap, failure, ...)
  \* one application of a pure function
  pure,              \* function, arguments and result, or NoPure
  \* the page (pages/index.tsx), its viewer and the browser's localStorage
  pdfData,            \* Home.pdfData: NoDocument (null) or the document
  boundingBoxes,      \* Home.boundingBoxes, in the order of creation
  mcqs,               \* Home.mcqs.length
  isLoading,          \* Home.isLoading
  currentStep,        \* Home.currentStep: "upload", "select" or "edit"
  currentFileId,      \* Home.currentFileId: NoFile (null) or a file id
  extractionProgress, \* Home.extractionProgress is not null (shown), and
                      \* the timers set to empty it that have not fired
  viewer,             \* PDFViewerWithOverlay: currentPage and scale
  upload,             \* position of the handleFileUpload call in progress
  runs,               \* the handleExtractText calls in progress
  storage,            \* localStorage: the file list and the MCQ-data list
  clock,              \* ids issued so far (Date.now() and the random tail)
  gestures,           \* the clicks and mouse events the user has yet to make
  returned,           \* the question boxes that the loop of the last
                      \* handleExtractText call to return has come to
  extractorRef        \* textExtractorRef.current or geminiExtractorRef.current:
                      \* "unset" before the effect of the first render, then
                      \* "hybrid", "gemini", or "null" (no Gemini key)

vars == <<worker, isInitialized, tpc, pc, args, pdfText, pdfConfidence,
          pdfThrew, ocrResult, ocrFault, extractCalls, recognizeCalls,
          outcome, merge, sharedWorker, sharedInitialized, callers,
          teardown, createCalls, workers, history, pure, pdfData,
          boundingBoxes, mcqs, isLoading, currentStep, currentFileId,
          extractionProgress, viewer, upload, runs, storage, clock,
          gestures, extractorRef, returned>>

\* the variables of the page and of localStorage
workflow == <<pdfData, boundingBoxes, mcqs, isLoading, currentStep,
              currentFileId, extractionProgress, viewer, upload, runs,
              storage, clock, gestures, extractorRef, returned>>

\* the variables of the other specifications
others == <<sharedWorker, sharedInitialized, callers, teardown, createCalls,
            workers, history, pure, workflow>>

NoArgs == [pageNumber |-> 0]

NoResult == [confidence |-> -1]

NoOutcome == [method |-> "none"]

NoMerge == [result |-> "none"]

locals == <<args, pdfText, pdfConfidence, pdfThrew, ocrResult, ocrFault,
            extractCalls, recognizeCalls, outcome, merge>>

(***************************************************************************)
(* An OCRExtractor used by several callers at once.  A worker is known by  *)
(* its number, the order in which createWorker produced it.                *)
(***************************************************************************)
\* the callers that share the extractor
Callers == {"a", "b"}

\* calls of Tesseract.createWorker in one run
MaxCreateCalls == 3

WorkerIds == 1..MaxCreateCalls

\* a caller with no call in progress
IdleCaller == [op |-> "none", pc |-> "idle", w |-> 0, result |-> "none"]

\* no terminate() in progress
NoTeardown == [pc |-> "idle", w |-> 0]

(***************************************************************************)
(* The page Home (pages/index.tsx, in its hybrid and its Gemini version),  *)
(* the viewer it mounts on the select step, and LocalStorage               *)
(* (lib/storage-utils.ts).                                                 *)
(* An id is a pair of its prefix and the number that stands for the        *)
(* Date.now() and random tail: <<"file", 1>> is `file_<1>`, <<"data", 2>>  *)
(* is `data_<2>`.                                                          *)
(***************************************************************************)
\* ids issued in one run of the model
MaxClock == 4

\* bounding boxes kept at a time
MaxBoxes == 2

\* clicks on the zoom buttons while the viewer stays mounted
MaxZooms == 1

\* renderPage calls of the viewer in flight at a time
MaxRenders == 1

\* clicks and mouse events of the user in one run of the page
MaxGestures == 7

\* the same in a run of the page that is checked for what it leads to
MaxLiveGestures == 6

\* pdf.numPages of the uploaded document
NumPages == 2

\* scales are counted in quarters: 1.5 is 6, 0.25 is 1
DefaultScale == 6

ZoomStep == 1

MinScale == 2

MaxScale == 12

\* the scale handleExtractText passes to extractFromBoundingBox: 1.5
ExtractScale == 6

\* pdfData === null
NoDocument == [numPages |-> 0]

\* currentFileId === null
NoFile == <<"none", 0>>

\* the viewer is not mounted.  A mounted viewer has its state currentPage,
\* scale, selectedType, isDrawing, startPos and draggedBox; pdf tells
\* whether its own loadPDF is pending ("loading": it renders a spinner and
\* no canvas), has resolved ("loaded") or has rejected ("failed": pdf stays
\* null); canvas is what its canvas element holds, the raster of a page at
\* a scale, page 0 while nothing is painted and scale 0 while it has the
\* size of a new canvas (300 x 150); renders are its renderPage calls in
\* flight.  Of startPos the model keeps the scale of the raster that lay
\* under the overlay at the mouse down.  draggedBox is the place of the
\* dragged box in boundingBoxes, 0 for null and -1 for the id of a box
\* that has been deleted.  currentPos and dragOffset are left out: no
\* handler reads them into a box's type, page or raster.
NoViewer == [currentPage |-> 0, scale |-> 0, zooms |-> 0, pdf |-> "none",
             canvas |-> [page |-> 0, scale |-> 0], renders |-> {},
             selectedType |-> "none", isDrawing |-> FALSE,
             startPos |-> [scale |-> 0], draggedBox |-> 0]

\* saveFile: files.push(storedFile); setItem(FILES_KEY, ...); setItem(file_<id>)
saveFile(st, fileId) == [st EXCEPT !.files = @ \cup {fileId}]

\* saveMCQData: the record keeps dataId, fileName, timestamp, mcqs and
\* boundingBoxes.  fileId is not kept in it: savedFor only remembers, for
\* the properties, which call stored the record.
saveMCQData(st, fileId, dataId) ==
  [st EXCEPT !.data = Append(@, [id |-> dataId, savedFor |-> fileId])]

\* deleteMCQData: allData.filter(d => d.id !== fileId)
deleteMCQData(st, fileId) ==
  LET Kept(d) == d.id # fileId
  IN  [st EXCEPT !.data = SelectSeq(@, Kept)]

\* deleteFile: removeItem, files.filter(f => f.id !== fileId), deleteMCQData
deleteFile(st, fileId) ==
  deleteMCQData([st EXCEPT !.files = @ \ {fileId}], fileId)

\* cleanupOldFiles: deleteFile for every file whose timestamp is before
\* the cutoff, oldest first; the number of an id stands for its Date.now()
RECURSIVE cleanupOldFiles(_, _)
cleanupOldFiles(st, cutoffTime) ==
  LET filesToDelete == {f \in st.files : f[2] < cutoffTime}
  IN  IF filesToDelete = {} THEN st
      ELSE cleanupOldFiles(
             deleteFile(st, CHOOSE f \in filesToDelete :
                              \A g \in filesToDelete : f[2] <= g[2]),
             cutoffTime)

\* no pure function applied
NoPure == [fn |-> "none"]

\* new HybridTextExtractor(): an OCRExtractor without a worker
Constructed ==
  /\ worker = "null"
  /\ isInitialized = FALSE
  /\ tpc = "idle"
  /\ pc = "idle"
  \* no call begun
  /\ args = NoArgs
  /\ pdfText = <<>>
  /\ pdfConfidence = 0
  /\ pdfThrew = FALSE
  /\ ocrResult = NoResult
  /\ ocrFault = "none"
  /\ extractCalls = 0
  /\ recognizeCalls = 0
  /\ outcome = NoOutcome
  /\ merge = NoMerge
  \* one OCRExtractor shared by the callers, without a worker
  /\ sharedWorker = 0
  /\ sharedInitialized = FALSE
  /\ callers = [c \in Callers |-> IdleCaller]
  /\ teardown = NoTeardown
  /\ createCalls = 0
  \* no worker has been produced by createWorker yet
  /\ workers = [i \in WorkerIds |-> [status |-> "none", terminateCalls |-> 0]]
  /\ history =
       [overlap    |-> FALSE,   \* two operations have been in progress together
        failed     |-> FALSE,   \* createWorker or setParameters has rejected
        terminated |-> FALSE,   \* terminate() has been called
        late       |-> FALSE]   \* a call began after terminate() was called
  /\ pure = NoPure
  \* the page before an upload
  /\ pdfData = NoDocument
  /\ boundingBoxes = <<>>
  /\ mcqs = 0
  /\ isLoading = FALSE
  /\ currentStep = "upload"
  /\ currentFileId = NoFile
  /\ extractionProgress = [shown |-> FALSE, timers |-> 0]
  /\ viewer = NoViewer
  /\ upload = "idle"
  /\ runs = <<>>
  \* localStorage is empty, or holds the file of an earlier visit
  /\ clock \in 0..1
  /\ storage = [files |-> {<<"file", n>> : n \in 1..clock}, data |-> <<>>]
  /\ extractorRef = "unset"
  /\ returned = <<>>

\* the state after construction, before a user who makes MaxGestures
\* clicks and mouse events
Init == Constructed /\ gestures = MaxGestures

\* the same, before a user who makes MaxLiveGestures of them
InitLive == Constructed /\ gestures = MaxLiveGestures

(***************************************************************************)
(* extractFromBoundingBox, one action per await.                            *)
(***************************************************************************)
\* the call: let pdfText = ''; let pdfConfidence = 0; await pdf.getPage(...)
Call(pageNumber, bbox, scale) ==
  /\ pc = "idle"
  /\ pc' = "structured"
  /\ args' = [pageNumber |-> pageNumber, bbox |-> bbox, scale |-> scale]
  /\ UNCHANGED <<worker, isInitialized, tpc, pdfText, pdfConfidence, pdfThrew,
                 ocrResult, ocrFault, extractCalls, recognizeCalls, outcome,
                 merge>>
  /\ UNCHANGED others

\* what follows the first try/catch, up to the next await: the short
\* circuit, or extractTextFromCanvas up to the first await of initialize()
AfterStructured(text, confidence) ==
  IF ShortCircuit(text, confidence)
    THEN /\ outcome' = PdfOutcome(text, confidence)
         /\ pc' = "done"
         /\ extractCalls' = extractCalls
    ELSE /\ outcome' = outcome
         /\ extractCalls' = extractCalls + 1
         /\ pc' = IF isInitialized THEN "initialized" ELSE "createWorker"

\* getPage, getTextContent and getViewport succeed
StructuredRead ==
  /\ pc = "structured"
  /\ args.pageNumber \in DOMAIN Pdf
  /\ LET text == StructuredText(Pdf[args.pageNumber], args.bbox, args.scale)
     IN  /\ pdfText' = text
         /\ pdfConfidence' = StructuredConfidence(text)
         /\ AfterStructured(text, StructuredConfidence(text))
  /\ UNCHANGED <<worker, isInitialized, tpc, args, pdfThrew, ocrResult,
                 ocrFault, recognizeCalls, merge>>
  /\ UNCHANGED others

\* getPage or getTextContent rejects (always for a page number that is not
\* in the document): catch, pdfText stays '' and pdfConfidence 0
StructuredThrows ==
  /\ pc = "structured"
  /\ pdfThrew' = TRUE
  /\ AfterStructured(pdfText, pdfConfidence)
  /\ UNCHANGED <<worker, isInitialized, tpc, args, pdfText, pdfConfidence,
                 ocrResult, ocrFault, recognizeCalls, merge>>
  /\ UNCHANGED others

\* an exception of extractTextFromCanvas: the second catch, then the fallback
Caught(fault) ==
  /\ ocrFault' = fault
  /\ outcome' = Fallback(pdfText, pdfConfidence)
  /\ pc' = "done"

\* this.worker = await Tesseract.createWorker('eng')
CreateWorkerOk ==
  /\ pc = "createWorker"
  /\ worker' = "live"
  /\ pc' = "setParameters"
  /\ UNCHANGED <<isInitialized, tpc, locals>>
  /\ UNCHANGED others

CreateWorkerFails ==
  /\ pc = "createWorker"
  /\ Caught("createWorker")
  /\ UNCHANGED <<worker, isInitialized, tpc, args, pdfText, pdfConfidence,
                 pdfThrew, ocrResult, extractCalls, recognizeCalls, merge>>
  /\ UNCHANGED others

\* await this.worker.setParameters(...); this.isInitialized = true
SetParametersOk ==
  /\ pc = "setParameters"
  /\ isInitialized' = TRUE
  /\ pc' = "initialized"
  /\ UNCHANGED <<worker, tpc, locals>>
  /\ UNCHANGED others

SetParametersFails ==
  /\ pc = "setParameters"
  /\ Caught("setParameters")
  /\ UNCHANGED <<worker, isInitialized, tpc, args, pdfText, pdfConfidence,
                 pdfThrew, ocrResult, extractCalls, recognizeCalls, merge>>
  /\ UNCHANGED others

\* after await this.initialize(): if (!this.worker) throw ...
WorkerMissing ==
  /\ pc = "initialized"
  /\ worker = "null"
  /\ Caught("noWorker")
  /\ UNCHANGED <<worker, isInitialized, tpc, args, pdfText, pdfConfidence,
                 pdfThrew, ocrResult, extractCalls, recognizeCalls, merge>>
  /\ UNCHANGED others

\* the crop throws (no 2d context, or drawImage rejects the rectangle)
CropThrows ==
  /\ pc = "initialized"
  /\ worker # "null"
  /\ Caught("crop")
  /\ UNCHANGED <<worker, isInitialized, tpc, args, pdfText, pdfConfidence,
                 pdfThrew, ocrResult, extractCalls, recognizeCalls, merge>>
  /\ UNCHANGED others

\* the crop, then await this.worker.recognize(imageData)
Recognize ==
  /\ pc = "initialized"
  /\ worker # "null"
  /\ recognizeCalls' = recognizeCalls + 1
  /\ pc' = "recognize"
  /\ UNCHANGED <<worker, isInitialized, tpc, args, pdfText, pdfConfidence,
                 pdfThrew, ocrResult, ocrFault, extractCalls, outcome, merge>>
  /\ UNCHANGED others

\* recognize resolves with data.text and data.confidence
RecognizeOk(rawText, confidence) ==
  /\ pc = "recognize"
  /\ ocrResult' = RecognizedResult(rawText, confidence)
  /\ outcome' = Reconcile(pdfText, pdfConfidence, ocrResult')
  /\ pc' = "done"
  /\ UNCHANGED <<worker, isInitialized, tpc, args, pdfText, pdfConfidence,
                 pdfThrew, ocrFault, extractCalls, recognizeCalls, merge>>
  /\ UNCHANGED others

\* recognize rejects: extractTextFromCanvas resolves with the empty result
RecognizeThrows ==
  /\ pc = "recognize"
  /\ ocrFault' = "recognize"
  /\ ocrResult' = FailedResult
  /\ outcome' = Reconcile(pdfText, pdfConfidence, FailedResult)
  /\ pc' = "done"
  /\ UNCHANGED <<worker, isInitialized, tpc, args, pdfText, pdfConfidence,
                 pdfThrew, extractCalls, recognizeCalls, merge>>
  /\ UNCHANGED others

\* combineTextResults applied to two non-empty texts
Combine(s, r) ==
  /\ pc = "idle"
  /\ merge' = [pdfText |-> s, ocrText |-> r,
               result |-> combineTextResults(s, r)]
  /\ pc' = "combined"
  /\ UNCHANGED <<worker, isInitialized, tpc, args, pdfText, pdfConfidence,
                 pdfThrew, ocrResult, ocrFault, extractCalls, recognizeCalls,
                 outcome>>
  /\ UNCHANGED others

\* the caller has taken the result; the locals of the call are gone
Return ==
  /\ pc \in {"done", "combined"}
  /\ pc' = "idle"
  /\ args' = NoArgs
  /\ pdfText' = <<>>
  /\ pdfConfidence' = 0
  /\ pdfThrew' = FALSE
  /\ ocrResult' = NoResult
  /\ ocrFault' = "none"
  /\ extractCalls' = 0
  /\ recognizeCalls' = 0
  /\ outcome' = NoOutcome
  /\ merge' = NoMerge
  /\ UNCHANGED <<worker, isInitialized, tpc>>
  /\ UNCHANGED others

(***************************************************************************)
(* OCRExtractor.terminate (through HybridTextExtractor.terminate).          *)
(***************************************************************************)
\* if (this.worker) await this.worker.terminate()
TerminateStart ==
  /\ tpc = "idle"
  /\ worker # "null"
  /\ tpc' = "terminating"
  /\ UNCHANGED <<worker, isInitialized, pc, locals>>
  /\ UNCHANGED others

\* this.worker = null; this.isInitialized = false
TerminateFinish ==
  /\ tpc = "terminating"
  /\ worker' = "null"
  /\ isInitialized' = FALSE
  /\ tpc' = "idle"
  /\ UNCHANGED <<pc, locals>>
  /\ UNCHANGED others

(***************************************************************************)
(* detectLatex called directly, twice in a row on the same extractor.      *)
(***************************************************************************)
\* the variables of the shared-extractor specification
shared == <<sharedWorker, sharedInitialized, callers, teardown, createCalls,
            workers, history>>

\* a first call of detectLatex
DetectLatexCall(text) ==
  /\ pc = "idle"
  /\ pure = NoPure
  /\ LET r == detectLatexCall(text, [p \in GlobalPatterns |-> 0])
     IN  pure' = [fn             |-> "detectLatex",
                  calls          |-> 1,
                  text           |-> text,
                  result         |-> r.result,
                  lastIndex      |-> r.lastIndex,
                  previousText   |-> <<>>,
                  previousResult |-> FALSE]
  /\ pc' = "detected"
  /\ UNCHANGED <<worker, isInitialized, tpc, locals, shared, workflow>>

\* the next call of detectLatex, after the first has returned
DetectLatexCallAgain(text) ==
  /\ pc = "detected"
  /\ pure.calls = 1
  /\ LET r == detectLatexCall(text, pure.lastIndex)
     IN  pure' = [fn             |-> "detectLatex",
                  calls          |-> 2,
                  text           |-> text,
                  result         |-> r.result,
                  lastIndex      |-> r.lastIndex,
                  previousText   |-> pure.text,
                  previousResult |-> pure.result]
  /\ UNCHANGED <<worker, isInitialized, tpc, pc, locals, shared, workflow>>

\* the results are dropped
DetectLatexDone ==
  /\ pc = "detected"
  /\ pure' = NoPure
  /\ pc' = "idle"
  /\ UNCHANGED <<worker, isInitialized, tpc, locals, shared, workflow>>

Next ==
  \* the page numbers a caller passes: the last is not a page of the document
  \* the regions are in raster pixels
  \/ \E n \in 1..(Len(Pdf) + 1), bx \in {0, 15, 30, 45, 60, 75},
          by \in {15, 45}, bw \in {0, 15}, s \in Scales :
       Call(n, [x |-> bx, y |-> by, width |-> bw, height |-> 30], s)
  \/ StructuredRead
  \/ StructuredThrows
  \/ CreateWorkerOk
  \/ CreateWorkerFails
  \/ SetParametersOk
  \/ SetParametersFails
  \/ WorkerMissing
  \/ CropThrows
  \/ Recognize
  \* data.confidence of the recognizer, around the thresholds
  \/ \E t \in RawTexts, c \in {0, 59, 60, 61, 75, 95, 96, 100} :
       RecognizeOk(t, c)
  \/ RecognizeThrows
  \/ \E s \in CombineTexts("s"), r \in CombineTexts("r") : Combine(s, r)
  \/ Return
  \/ \E t \in RepeatTexts : DetectLatexCall(t)
  \/ \E t \in RepeatTexts : DetectLatexCallAgain(t)
  \/ DetectLatexDone
  \/ TerminateStart
  \/ TerminateFinish

Spec == Init /\ [][Next]_vars

(***************************************************************************)
(* OCRExtractor under concurrent callers: initialize(),                    *)
(* extractTextFromCanvas() and terminate(), one action per await.          *)
(***************************************************************************)
\* the variables of the one-call-at-a-time specification
single == <<worker, isInitialized, tpc, pc, args, pdfText, pdfConfidence,
            pdfThrew, ocrResult, ocrFault, extractCalls, recognizeCalls,
            outcome, merge>>

\* an operation of another caller, or terminate(), is in progress
OthersBusy(c) ==
  \/ \E d \in Callers \ {c} : callers[d].pc # "idle"
  \/ teardown.pc # "idle"

\* workers produced so far
Created == {i \in WorkerIds : workers[i].status # "none"}

\* caller c calls initialize() or extractTextFromCanvas(): initialize() runs
\* to its first await (if (this.isInitialized) return; createWorker(...))
Begin(c, op) ==
  /\ callers[c].pc = "idle"
  /\ sharedInitialized \/ createCalls < MaxCreateCalls
  /\ callers' = [callers EXCEPT ![c] =
       [op |-> op, w |-> 0, result |-> "none",
        pc |-> IF ~sharedInitialized THEN "createWorker"
               ELSE IF op = "initialize" THEN "resolved" ELSE "initialized"]]
  /\ createCalls' = IF sharedInitialized THEN createCalls ELSE createCalls + 1
  /\ history' = [history EXCEPT !.overlap = @ \/ OthersBusy(c),
                                !.late = @ \/ history.terminated]
  /\ UNCHANGED <<sharedWorker, sharedInitialized, teardown, workers>>
  /\ UNCHANGED <<single, pure, workflow>>

\* this.worker = await Tesseract.createWorker('eng'); then setParameters
\* is called on it
SharedCreateWorkerOk(c) ==
  /\ callers[c].pc = "createWorker"
  /\ LET id == Cardinality(Created) + 1
     IN  /\ workers' = [workers EXCEPT ![id].status = "live"]
         /\ sharedWorker' = id
         /\ callers' = [callers EXCEPT ![c].pc = "setParameters", ![c].w = id]
  /\ UNCHANGED <<sharedInitialized, teardown, createCalls, history>>
  /\ UNCHANGED <<single, pure, workflow>>

\* createWorker rejects: initialize() rejects, and so does the caller's call
SharedCreateWorkerFails(c) ==
  /\ callers[c].pc = "createWorker"
  /\ callers' = [callers EXCEPT ![c].pc = "rejected"]
  /\ history' = [history EXCEPT !.failed = TRUE]
  /\ UNCHANGED <<sharedWorker, sharedInitialized, teardown, createCalls,
                 workers>>
  /\ UNCHANGED <<single, pure, workflow>>

\* setParameters resolves (the worker is alive): this.isInitialized = true
SharedSetParametersOk(c) ==
  /\ callers[c].pc = "setParameters"
  /\ workers[callers[c].w].status = "live"
  /\ sharedInitialized' = TRUE
  /\ callers' = [callers EXCEPT ![c].pc =
       IF callers[c].op = "initialize" THEN "resolved" ELSE "initialized"]
  /\ UNCHANGED <<sharedWorker, teardown, createCalls, workers, history>>
  /\ UNCHANGED <<single, pure, workflow>>

\* setParameters rejects
SharedSetParametersFails(c) ==
  /\ callers[c].pc = "setParameters"
  /\ callers' = [callers EXCEPT ![c].pc = "rejected"]
  /\ history' = [history EXCEPT !.failed = TRUE]
  /\ UNCHANGED <<sharedWorker, sharedInitialized, teardown, createCalls,
                 workers>>
  /\ UNCHANGED <<single, pure, workflow>>

\* if (!this.worker) throw new Error('OCR worker not initialized')
SharedWorkerMissing(c) ==
  /\ callers[c].pc = "initialized"
  /\ sharedWorker = 0
  /\ callers' = [callers EXCEPT ![c].pc = "rejected"]
  /\ UNCHANGED <<sharedWorker, sharedInitialized, teardown, createCalls,
                 workers, history>>
  /\ UNCHANGED <<single, pure, workflow>>

\* the crop throws, outside the try block
SharedCropThrows(c) ==
  /\ callers[c].pc = "initialized"
  /\ sharedWorker # 0
  /\ callers' = [callers EXCEPT ![c].pc = "rejected"]
  /\ UNCHANGED <<sharedWorker, sharedInitialized, teardown, createCalls,
                 workers, history>>
  /\ UNCHANGED <<single, pure, workflow>>

\* await this.worker.recognize(imageData), on the worker held now
SharedRecognize(c) ==
  /\ callers[c].pc = "initialized"
  /\ sharedWorker # 0
  /\ callers' = [callers EXCEPT ![c].pc = "recognize", ![c].w = sharedWorker]
  /\ UNCHANGED <<sharedWorker, sharedInitialized, teardown, createCalls,
                 workers, history>>
  /\ UNCHANGED <<single, pure, workflow>>

\* recognize resolves (the worker is alive): the cleaned text is returned
SharedRecognizeOk(c) ==
  /\ callers[c].pc = "recognize"
  /\ workers[callers[c].w].status = "live"
  /\ callers' = [callers EXCEPT ![c].pc = "resolved", ![c].result = "text"]
  /\ UNCHANGED <<sharedWorker, sharedInitialized, teardown, createCalls,
                 workers, history>>
  /\ UNCHANGED <<single, pure, workflow>>

\* recognize rejects: catch, return { text: '', confidence: 0 }
SharedRecognizeThrows(c) ==
  /\ callers[c].pc = "recognize"
  /\ callers' = [callers EXCEPT ![c].pc = "resolved", ![c].result = "empty"]
  /\ UNCHANGED <<sharedWorker, sharedInitialized, teardown, createCalls,
                 workers, history>>
  /\ UNCHANGED <<single, pure, workflow>>

\* the caller resumes with the settled promise
Finish(c) ==
  /\ callers[c].pc \in {"resolved", "rejected"}
  /\ callers' = [callers EXCEPT ![c] = IdleCaller]
  /\ UNCHANGED <<sharedWorker, sharedInitialized, teardown, createCalls,
                 workers, history>>
  /\ UNCHANGED <<single, pure, workflow>>

\* terminate() finds a worker: await this.worker.terminate(), which stops
\* the worker
SharedTerminateStart ==
  /\ teardown.pc = "idle"
  /\ sharedWorker # 0
  /\ teardown' = [pc |-> "terminating", w |-> sharedWorker]
  /\ workers' = [workers EXCEPT
       ![sharedWorker].status = "terminated",
       ![sharedWorker].terminateCalls = @ + 1]
  /\ history' = [history EXCEPT
       !.terminated = TRUE,
       !.overlap = @ \/ (\E c \in Callers : callers[c].pc # "idle")]
  /\ UNCHANGED <<sharedWorker, sharedInitialized, callers, createCalls>>
  /\ UNCHANGED <<single, pure, workflow>>

\* terminate() finds no worker: it does nothing
SharedTerminateNoop ==
  /\ teardown.pc = "idle"
  /\ sharedWorker = 0
  /\ teardown' = [pc |-> "returned", w |-> 0]
  /\ history' = [history EXCEPT
       !.terminated = TRUE,
       !.overlap = @ \/ (\E c \in Callers : callers[c].pc # "idle")]
  /\ UNCHANGED <<sharedWorker, sharedInitialized, callers, createCalls,
                 workers>>
  /\ UNCHANGED <<single, pure, workflow>>

SharedTerminateFinishKeepsWorker ==
  /\ teardown.pc = "terminating"
  /\ sharedInitialized' = FALSE
  /\ teardown' = [teardown EXCEPT !.pc = "returned"]
  /\ UNCHANGED <<sharedWorker, callers, createCalls, workers, history>>
  /\ UNCHANGED <<single, pure, workflow>>

\* worker.terminate() has resolved: this.worker = null;
\* this.isInitialized = false
SharedTerminateFinish ==
  /\ teardown.pc = "terminating"
  /\ sharedWorker' = 0
  /\ sharedInitialized' = FALSE
  /\ teardown' = [teardown EXCEPT !.pc = "returned"]
  /\ UNCHANGED <<callers, createCalls, workers, history>>
  /\ UNCHANGED <<single, pure, workflow>>

\* the caller of terminate() resumes
SharedTerminateReturn ==
  /\ teardown.pc = "returned"
  /\ teardown' = NoTeardown
  /\ UNCHANGED <<sharedWorker, sharedInitialized, callers, createCalls,
                 workers, history>>
  /\ UNCHANGED <<single, pure, workflow>>

NextShared ==
  \/ \E c \in Callers, op \in {"initialize", "extract"} : Begin(c, op)
  \/ \E c \in Callers : SharedCreateWorkerOk(c)
  \/ \E c \in Callers : SharedCreateWorkerFails(c)
  \/ \E c \in Callers : SharedSetParametersOk(c)
  \/ \E c \in Callers : SharedSetParametersFails(c)
  \/ \E c \in Callers : SharedWorkerMissing(c)
  \/ \E c \in Callers : SharedCropThrows(c)
  \/ \E c \in Callers : SharedRecognize(c)
  \/ \E c \in Callers : SharedRecognizeOk(c)
  \/ \E c \in Callers : SharedRecognizeThrows(c)
  \/ \E c \in Callers : Finish(c)
  \/ SharedTerminateStart
  \/ SharedTerminateNoop
  \/ SharedTerminateFinish
  \/ SharedTerminateReturn

SpecShared == Init /\ [][NextShared]_vars

(***************************************************************************)
(* The pure functions, one application at a time.                          *)
(***************************************************************************)
\* the variables of the other specifications
stateful == <<single, sharedWorker, sharedInitialized, callers, teardown,
              createCalls, workers, history>>

\* the structured read of a region: pdfBbox, then the forEach and the trim
ReadRegion(page, bbox, scale) ==
  /\ pure = NoPure
  /\ pure' = [fn     |-> "structured",
              height |-> page.height,
              items  |-> page.items,
              bbox   |-> bbox,
              scale  |-> scale,
              box    |-> pdfBbox(page.height, bbox, scale),
              text   |-> StructuredText(page, bbox, scale)]
  /\ UNCHANGED <<stateful, workflow>>

\* cleanOCRText(text)
Clean(text) ==
  /\ pure = NoPure
  /\ pure' = [fn     |-> "clean",
              arg    |-> text,
              passes |-> 1,
              first  |-> cleanOCRText(text),
              result |-> cleanOCRText(text)]
  /\ UNCHANGED <<stateful, workflow>>

\* cleanOCRText applied to its own result
CleanAgain ==
  /\ pure.fn = "clean"
  /\ pure.passes = 1
  /\ pure' = [pure EXCEPT !.passes = 2, !.result = cleanOCRText(pure.result)]
  /\ UNCHANGED <<stateful, workflow>>

\* detectMathContent(text) and detectLatex(text)
Detect(text) ==
  /\ pure = NoPure
  /\ pure' = [fn    |-> "detect",
              arg   |-> text,
              math  |-> detectMathContent(text),
              latex |-> detectLatex(text)]
  /\ UNCHANGED <<stateful, workflow>>

\* the result is dropped
Forget ==
  /\ pure # NoPure
  /\ pure' = NoPure
  /\ UNCHANGED <<stateful, workflow>>

NextPure ==
  \/ \E bbox \in ProbeBoxes, scale \in Scales :
       ReadRegion(ProbePage, bbox, scale)
  \/ \E text \in CleanTexts : Clean(text)
  \/ CleanAgain
  \/ \E text \in DetectTexts : Detect(text)
  \/ Forget

SpecPure == Init /\ [][NextPure]_vars

(***************************************************************************)
(* Properties.                                                             *)
(***************************************************************************)
\* the recognizer returned a result of its own (recognize resolved)
Recognized == ocrResult # NoResult /\ ocrFault = "none"

\* the merge rule as the specification states it, in fifths and halves
MergeRuleResult(s, r) ==
  IF 5 * Len(s) > 4 * Len(r) THEN s
  ELSE IF 2 * Len(r) > 3 * Len(s) THEN r
  ELSE s \o <<" ">> \o r

\* C1 (short circuit): whenever the structured text of the call has 11
\* characters or more, the call has finished without entering
\* extractTextFromCanvas and without calling worker.recognize, and its outcome
\* is the structured text with method 'pdf' and confidence 95.
C1_ShortCircuit ==
  Len(pdfText) >= 11 =>
    /\ pc = "done"
    /\ extractCalls = 0
    /\ recognizeCalls = 0
    /\ outcome.text = pdfText
    /\ outcome.method = "pdf"
    /\ outcome.confidence = 95

\* a call over a structured text of exactly 11 characters has returned it
C1_Witness ==
  /\ pc = "done"
  /\ Len(pdfText) = 11
  /\ outcome.method = "pdf"
  /\ recognizeCalls = 0

\* C2 (total failure placeholder): when the structured text is empty and the
\* recognizer path failed (createWorker, setParameters, the crop or recognize
\* threw, or the worker was gone), the call resolves with the placeholder,
\* confidence 0 and method 'ocr'.
C2_TotalFailurePlaceholder ==
  (pc = "done" /\ pdfText = <<>> /\ ocrFault # "none") =>
    /\ outcome.text = Placeholder
    /\ outcome.confidence = 0
    /\ outcome.method = "ocr"

\* recognize threw on a region without structured text
C2_Witness ==
  /\ pc = "done"
  /\ pdfText = <<>>
  /\ ocrFault = "recognize"
  /\ recognizeCalls = 1
  /\ outcome.method = "ocr"

\* C3 (empty extraction degrades to the placeholder), as claimed: for every
\* recognizer confidence, when the structured text and the cleaned recognized
\* text are both empty the outcome is the placeholder with confidence 0, and
\* its text is not the empty string.
C3_EmptyIsPlaceholder ==
  (pc = "done" /\ pdfText = <<>> /\ Recognized /\ ocrResult.text = <<>>) =>
    /\ outcome.text = Placeholder
    /\ outcome.confidence = 0
    /\ outcome.text # <<>>

\* C4 (single-source selection), as claimed: with recognizer confidence > 60
\* and exactly one non-empty source, the outcome is that source: the
\* recognized text with method 'ocr' and the recognizer's confidence, or the
\* short structured text with method 'pdf'.
C4_SingleSource ==
  (pc = "done" /\ Recognized /\ ocrResult.confidence > 60) =>
    /\ (pdfText = <<>> /\ ocrResult.text # <<>>) =>
         /\ outcome.text = ocrResult.text
         /\ outcome.method = "ocr"
         /\ outcome.confidence = ocrResult.confidence
    /\ (pdfText # <<>> /\ ocrResult.text = <<>>) =>
         /\ outcome.text = pdfText
         /\ outcome.method = "pdf"

\* C5 (low-confidence discard): a recognizer result of confidence 60 or less
\* over an empty structured text is not used: the outcome is the placeholder
\* with method 'ocr' and confidence 0.
C5_LowConfidenceDiscard ==
  (pc = "done" /\ pdfText = <<>> /\ Recognized /\ ocrResult.confidence <= 60) =>
    /\ outcome.text = Placeholder
    /\ outcome.method = "ocr"
    /\ outcome.confidence = 0

\* the recognizer read a text with confidence exactly 60 and it was discarded
C5_Witness ==
  /\ pc = "done"
  /\ pdfText = <<>>
  /\ Recognized
  /\ ocrResult.confidence = 60
  /\ ocrResult.text # <<>>
  /\ outcome.confidence = 0

\* the case of C6: a short non-empty structured text and no usable recognizer
\* result
ShortStructuredOnly ==
  /\ pc = "done"
  /\ pdfText # <<>>
  /\ Len(pdfText) <= 10
  /\ \/ ocrFault # "none"
     \/ (ocrResult # NoResult /\ ocrResult.confidence <= 60)

\* C6 (non-empty-short fallback), as claimed: the structured text is returned
\* with method 'pdf' and confidence 0.
C6_ShortFallbackZero ==
  ShortStructuredOnly =>
    /\ outcome.text = pdfText
    /\ outcome.method = "pdf"
    /\ outcome.confidence = 0

\* C6, amended: the structured text is returned with method 'pdf' and the
\* structured confidence 95.
C6_ShortFallbackKeepsConfidence ==
  ShortStructuredOnly =>
    /\ outcome.text = pdfText
    /\ outcome.method = "pdf"
    /\ outcome.confidence = 95

\* a structured text of 10 characters came back after a recognizer result of
\* confidence 60
C6_Witness ==
  /\ ShortStructuredOnly
  /\ Len(pdfText) = 10
  /\ Recognized
  /\ ocrResult.confidence = 60
  /\ outcome.confidence = 95

\* C7 (merge ratio boundary), as claimed: a region whose structured text has
\* 16 characters, with a recognized text of 20, yields the two texts joined
\* by a space with method 'hybrid'.
C7_Boundary16x20Hybrid ==
  (pc = "done" /\ Len(pdfText) = 16) =>
    /\ outcome.method = "hybrid"
    /\ \E raw \in RawTexts :
         /\ Len(cleanOCRText(raw)) = 20
         /\ outcome.text = pdfText \o <<" ">> \o cleanOCRText(raw)

\* C7, amended: the merge rule applied to texts of 16 and 20 characters
\* returns them joined by a space; a region whose structured text has 16
\* characters never reaches the merge: the call returns the structured text
\* with method 'pdf' and confidence 95 and the recognizer is not called.
C7_Boundary16x20 ==
  /\ (pc = "combined" /\ Len(merge.pdfText) = 16 /\ Len(merge.ocrText) = 20) =>
       merge.result = merge.pdfText \o <<" ">> \o merge.ocrText
  /\ (pc = "done" /\ Len(pdfText) = 16) =>
       /\ outcome.text = pdfText
       /\ outcome.method = "pdf"
       /\ outcome.confidence = 95
       /\ recognizeCalls = 0

\* a region with a structured text of 16 characters has been extracted
C7_Witness ==
  /\ pc = "done"
  /\ Len(pdfText) = 16
  /\ outcome.method = "pdf"
  /\ Len(outcome.text) = 16

\* C8 (dominant structured), as claimed: a region whose structured text has
\* 90 characters yields the structured text alone with method 'hybrid'.
C8_Dominant90Hybrid ==
  (pc = "done" /\ Len(pdfText) = 90) =>
    /\ outcome.text = pdfText
    /\ outcome.method = "hybrid"

\* C8, amended: a region whose structured text has 90 characters yields the
\* structured text alone with method 'pdf' and confidence 95, the recognizer
\* not being called; the merge rule applied to texts of 90 and 10 characters
\* also returns the structured text.
C8_Dominant90 ==
  /\ (pc = "done" /\ Len(pdfText) = 90) =>
       /\ outcome.text = pdfText
       /\ outcome.method = "pdf"
       /\ outcome.confidence = 95
       /\ recognizeCalls = 0
  /\ (pc = "combined" /\ Len(merge.pdfText) = 90 /\ Len(merge.ocrText) = 10) =>
       merge.result = merge.pdfText

\* a region with a structured text of 90 characters has been extracted
C8_Witness ==
  /\ pc = "done"
  /\ Len(pdfText) = 90
  /\ outcome.method = "pdf"
  /\ extractCalls = 0

\* C9 (merge rule): combineTextResults(s, r) on non-empty texts is s if
\* len(s) > 0.8 len(r), else r if len(r) > 1.5 len(s), else s + ' ' + r, and is
\* always one of the three; the text of a hybrid outcome is that result for
\* the structured and the recognized text.
C9_MergeRule ==
  /\ pc = "combined" =>
       /\ merge.result = MergeRuleResult(merge.pdfText, merge.ocrText)
       /\ merge.result \in {merge.pdfText, merge.ocrText,
                            merge.pdfText \o <<" ">> \o merge.ocrText}
  /\ (pc = "done" /\ outcome.method = "hybrid") =>
       outcome.text = MergeRuleResult(pdfText, ocrResult.text)

\* the rule has joined two texts on the boundary 2 len(r) = 3 len(s), where
\* neither text dominates
C9_Witness ==
  /\ pc = "combined"
  /\ Len(merge.pdfText) = 4
  /\ Len(merge.ocrText) = 6
  /\ Len(merge.result) = 11

\* C10 (hybrid outcome fields): an outcome has method 'hybrid' only when the
\* recognizer returned confidence > 60 and both texts are non-empty; its
\* confidence is the larger of the structured and the recognizer confidence
\* and its hasLatex is math in the structured text or math in the recognized
\* text, whichever text the merge selected.
C10_HybridFields ==
  (pc = "done" /\ outcome.method = "hybrid") =>
    /\ Recognized
    /\ ocrResult.confidence > 60
    /\ pdfText # <<>>
    /\ ocrResult.text # <<>>
    /\ pdfConfidence = 95
    /\ outcome.confidence = Max(pdfConfidence, ocrResult.confidence)
    /\ outcome.hasLatex =
         (detectLatex(pdfText) \/ detectMathContent(ocrResult.text))

\* a hybrid outcome whose text is the structured text, without math, and
\* whose hasLatex comes from the recognized text, read with confidence 61
C10_Witness ==
  /\ pc = "done"
  /\ outcome.method = "hybrid"
  /\ outcome.text = pdfText
  /\ ~detectLatex(pdfText)
  /\ outcome.hasLatex
  /\ ocrResult.confidence = 61
  /\ outcome.confidence = 95

(***************************************************************************)
(* The OCRExtractor's worker: creation, sharing and release.               *)
(***************************************************************************)
\* nothing is in progress: every call and terminate() has settled and its
\* caller has resumed
Quiescent ==
  /\ \A c \in Callers : callers[c].pc = "idle"
  /\ teardown.pc = "idle"

\* C11: extractTextFromCanvas never rejects: a failure of createWorker or of
\* setParameters, or a null worker, ends in a resolved empty result like a
\* failure of worker.recognize does.
C11_NeverRejects ==
  \A c \in Callers : callers[c].op = "extract" => callers[c].pc # "rejected"

\* C12: whatever the interleaving of the callers' initialize() and
\* extractTextFromCanvas() calls, as long as no initialization has failed and
\* terminate() has not been called, createWorker has been called at most once.
C12_SingleFlight ==
  (~history.failed /\ ~history.terminated) => createCalls <= 1

\* C13: in a sequential run of calls with no terminate(), at most one worker
\* is ever created, and a recognition runs on the worker the extractor holds.
C13_LazyReuse ==
  (~history.overlap /\ ~history.terminated) =>
    /\ Cardinality(Created) <= 1
    /\ \A c \in Callers :
         callers[c].pc = "recognize" => callers[c].w = sharedWorker

\* C14: terminate() called one call at a time invokes worker.terminate() at
\* most once on each worker, and it returns with worker = null and
\* isInitialized = false whether or not it found a worker to release.
C14_TerminateIdempotent ==
  /\ \A i \in WorkerIds : workers[i].terminateCalls <= 1
  /\ (~history.overlap /\ teardown.pc = "returned") =>
       (sharedWorker = 0 /\ ~sharedInitialized)

\* a second terminate() in a sequential run has returned, having found the
\* worker already released by the first
C14_Witness ==
  /\ ~history.overlap
  /\ teardown = [pc |-> "returned", w |-> 0]
  /\ \E i \in WorkerIds : workers[i].terminateCalls = 1

\* C15: once terminate() has been called, no call has begun after it, and
\* everything has settled, the extractor holds no worker and no worker it
\* created is still alive.
C15_GuaranteedRelease ==
  (history.terminated /\ ~history.late /\ Quiescent) =>
    /\ sharedWorker = 0
    /\ \A i \in WorkerIds : workers[i].status # "live"

(***************************************************************************)
(* The structured read: membership and the mapping of the region.          *)
(***************************************************************************)
\* the whole number v is at most the real a double, or a sum of doubles,
\* <<n, err>> stands for; v is given as its numerator v * num
AtMost(v, n, err) == v < n \/ (v = n /\ err >= 0)

\* the fragment's anchor lies in the region R, each field of R being the
\* real number its double stands for and the bounds R.x + R.width and
\* R.y + R.height the sums of these reals; all four bounds included
AnchorInRegion(item, R, scale) ==
  /\ item.transform # <<>>
  /\ LET x == item.transform[5] * scale.num
         y == item.transform[6] * scale.num
     IN  /\ ~AtMost(x, R.x[1], R.x[2]) \/ (x = R.x[1] /\ R.x[2] = 0)
         /\ AtMost(x, R.x[1] + R.width[1], R.x[2] + R.width[2])
         /\ ~AtMost(y, R.y[1], R.y[2]) \/ (y = R.y[1] /\ R.y[2] = 0)
         /\ AtMost(y, R.y[1] + R.height[1], R.y[2] + R.height[2])

\* the fragments' contents joined by single spaces
RECURSIVE SpaceJoin(_)
SpaceJoin(items) ==
  IF items = <<>> THEN <<>>
  ELSE IF Len(items) = 1 THEN items[1].str
  ELSE items[1].str \o <<" ">> \o SpaceJoin(Tail(items))

\* the fragments of the read whose anchor lies in region R, in list order
FragmentsIn(R) ==
  LET Picked(item) == AnchorInRegion(item, R, pure.scale)
  IN  SelectSeq(pure.items, Picked)

\* C16: the structured text of a region is the space-joined, trimmed contents
\* of exactly the fragments whose anchor lies in the native region R that
\* the mapping returns (pure.box), x in [R.x, R.x + R.width] and y in
\* [R.y, R.y + R.height], bounds included, in their original order; a
\* fragment whose anchor lies outside R is never included.
C16_AnchorMembership ==
  pure.fn = "structured" =>
    pure.text = Trim(SpaceJoin(FragmentsIn(pure.box)))

\* a region that reaches below the raster: R.y = -46/3 and R.height = 196/3
\* as doubles, whose sum lies below 50; of the fragments anchored at y = 40,
\* 50 and 51 in the column x = 10 the first is read and the others are not
C16_Witness ==
  /\ pure.fn = "structured"
  /\ pure.bbox = [x |-> 0, y |-> 15, width |-> 15, height |-> 98]
  /\ pure.scale = [num |-> 3, den |-> 2]
  /\ pure.box.y[1] + pure.box.height[1] = 50 * 3
  /\ pure.box.y[2] + pure.box.height[2] < 0
  /\ \E k \in DOMAIN pure.items :
       /\ pure.items[k].transform = At(10, 50)
       /\ ~AnchorInRegion(pure.items[k], pure.box, pure.scale)
  /\ pure.text # <<>>

\* the double <<n, err>> is the real of numerator given, over the same
\* denominator, up to one rounding to 53 bits (a relative error of 2^-53)
RoundingOf(d, numerator) ==
  /\ d[1] = numerator
  /\ d[2] <= 128 * numerator \/ d[2] <= -128 * numerator
  /\ -d[2] <= 128 * numerator \/ -d[2] <= -128 * numerator

\* C17: the native region is x/s, (H*s - y - height)/s, width/s, height/s
\* for s = num/den, each computed with one rounding of the double division
\* (pure.box holds the doubles as numerators over num, with their rounding
\* errors); a region at raster y = 0 has native y = H - height/s.
C17_AxisFlip ==
  pure.fn = "structured" =>
    LET s == pure.scale
        b == pure.bbox
    IN  /\ RoundingOf(pure.box.x, b.x * s.den)
        /\ RoundingOf(pure.box.width, b.width * s.den)
        /\ RoundingOf(pure.box.height, b.height * s.den)
        /\ RoundingOf(pure.box.y,
                      pure.height * s.num - (b.y + b.height) * s.den)
        /\ b.y = 0 =>
             RoundingOf(pure.box.y, pure.height * s.num - b.height * s.den)

\* a region at raster y = 0 and scale 1.5 on the page of height 60: native
\* y = 60 - 30/1.5 = 40, so the fragments anchored at y = 40, 50 and 51 of
\* the columns x = 10, 15, 20 are read (the blank that ends "s " stays)
C17_Witness ==
  /\ pure.fn = "structured"
  /\ pure.bbox = [x |-> 15, y |-> 0, width |-> 15, height |-> 30]
  /\ pure.scale = [num |-> 3, den |-> 2]
  /\ pure.box.y = <<40 * 3, 0>>
  /\ pure.text = <<"l", " ", "m", " ", "n", " ", "q", " ", "r", " ", "s", " ",
                   " ", "v", " ", "w", " ", "x">>

(***************************************************************************)
(* cleanOCRText and the math detectors.                                    *)
(***************************************************************************)
\* C18: cleanOCRText applied to its own result changes nothing.
C18_CleanIdempotent ==
  (pure.fn = "clean" /\ pure.passes = 2) => pure.result = pure.first

\* the text has character a directly followed by a character of class
Followed(t, a, class) ==
  \E i \in 1..(Len(t) - 1) : t[i] = a /\ t[i + 1] \in class

\* a '$', at least one character that is not '$', and a '$'
DollarSpan(t) ==
  \E i \in 1..Len(t), j \in 1..Len(t) :
    /\ i + 1 < j
    /\ t[i] = "$" /\ t[j] = "$"
    /\ \A k \in (i + 1)..(j - 1) : t[k] # "$"

\* '^' or '_', '{', at least one character that is not '}', and a '}'
BracedGroup(t) ==
  \E i \in 1..Len(t), j \in 1..Len(t) :
    /\ i + 2 < j
    /\ t[i] \in {"^", "_"} /\ t[i + 1] = "{" /\ t[j] = "}"
    /\ t[i + 2] # "}"

\* one of the characters of the text is in class
Contains(t, class) == {t[i] : i \in 1..Len(t)} \cap class # {}

\* every character that is not blank
NonBlank(t) == {t[i] : i \in 1..Len(t)} \ Whitespace

\* one of sin, cos, tan, log, ln, exp, lim, max, min, in either case, with no
\* letter, digit or underscore next to it
FunctionName(t) ==
  \E i \in 1..Len(t), j \in 1..Len(t) :
    /\ i <= j
    /\ [k \in 1..(j - i + 1) |-> ToLower(t[i + k - 1])] \in MathWords
    /\ i > 1 => t[i - 1] \notin WordChar
    /\ j < Len(t) => t[j + 1] \notin WordChar

\* the patterns of the list, '^' or '_' counting with any character after it
\* that is not blank
ListedAtMost(t) ==
  \/ DollarSpan(t)
  \/ Followed(t, "\\", Letter)
  \/ Followed(t, "^", NonBlank(t)) \/ Followed(t, "_", NonBlank(t))
  \/ Contains(t, MathSymbols)
  \/ Contains(t, GreekLetters)

\* the patterns of the list, '^' or '_' counting only with a letter, digit
\* or underscore after it, or with a braced group that is not empty
ListedAtLeast(t) ==
  \/ DollarSpan(t)
  \/ Followed(t, "\\", Letter)
  \/ Followed(t, "^", WordChar) \/ Followed(t, "_", WordChar)
  \/ BracedGroup(t)
  \/ Contains(t, MathSymbols)
  \/ Contains(t, GreekLetters)

\* C19 as stated: each detector answers true exactly when the text has one
\* of the listed patterns (true if it has one on the narrow reading of the
\* list, false if it has none on the wide reading).
C19_ListedPatternsOnly ==
  pure.fn = "detect" =>
    /\ ListedAtLeast(pure.arg) => (pure.math /\ pure.latex)
    /\ (pure.math \/ pure.latex) => ListedAtMost(pure.arg)

\* C19: detectMathContent is true exactly when the text has a $...$ span, a
\* backslash and a letter, '^' or '_' and a letter, digit, underscore or
\* brace, a listed symbol, a Greek letter, or a function name;
\* detectLatex is true exactly when the text has a $...$ span, a backslash
\* and a letter, '^' or '_' and a character that is neither blank nor '{',
\* '^' or '_' and a braced group that is not empty, a listed symbol or a
\* Greek letter.  Both are true for '$x^2+1$' and '\alpha' and false for
\* 'the cat sat'.
C19_MathDetection ==
  pure.fn = "detect" =>
    LET t == pure.arg
    IN  /\ pure.math <=>
             \/ DollarSpan(t)
             \/ Followed(t, "\\", Letter)
             \/ Followed(t, "^", WordChar \cup {"{", "}"})
             \/ Followed(t, "_", WordChar \cup {"{", "}"})
             \/ Contains(t, MathSymbols)
             \/ Contains(t, GreekLetters)
             \/ FunctionName(t)
        /\ pure.latex <=>
             \/ DollarSpan(t)
             \/ Followed(t, "\\", Letter)
             \/ Followed(t, "^", NonBlank(t) \ {"{"})
             \/ Followed(t, "_", NonBlank(t) \ {"{"})
             \/ BracedGroup(t)
             \/ Contains(t, MathSymbols)
             \/ Contains(t, GreekLetters)
        /\ t \in {<<"$", "x", "^", "2", "+", "1", "$">>,
                  <<"\\", "a", "l", "p", "h", "a">>}
             => (pure.math /\ pure.latex)
        /\ t = <<"t", "h", "e", " ", "c", "a", "t", " ", "s", "a", "t">>
             => (~pure.math /\ ~pure.latex)

\* 'sin x' has none of the listed patterns: detectMathContent says true for
\* the function name, detectLatex says false
C19_Witness ==
  /\ pure.fn = "detect"
  /\ pure.arg = <<"s", "i", "n", " ", "x">>
  /\ pure.math
  /\ ~pure.latex

(***************************************************************************)
(* Confidence of the outcomes of extractFromBoundingBox.                   *)
(***************************************************************************)
\* C20 as stated: an outcome has confidence 0 exactly when its text is the
\* placeholder, and its confidence lies in 0..100.
C20_ZeroIffPlaceholder ==
  pc = "done" =>
    /\ outcome.confidence = 0 <=> outcome.text = Placeholder
    /\ outcome.confidence \in 0..100

\* the text contains the words of the placeholder
HasPlaceholderWords(t) ==
  \E i \in 1..(Len(t) - Len(Placeholder) + 1) :
    SubSeq(t, i, i + Len(Placeholder) - 1) = Placeholder

\* C20: an outcome with confidence 0 is the placeholder; the placeholder
\* text comes with confidence 0 unless the words were read from the region
\* (the structured text, the recognized text, or the two joined by a blank
\* as the merge rule joins them, contains them); the confidence lies in
\* 0..100.
C20_ZeroConfidencePlaceholder ==
  pc = "done" =>
    /\ outcome.confidence = 0 => outcome.text = Placeholder
    /\ (outcome.text = Placeholder /\ outcome.confidence # 0) =>
         \/ HasPlaceholderWords(pdfText)
         \/ /\ Recognized
            /\ \/ HasPlaceholderWords(ocrResult.text)
               \/ HasPlaceholderWords(pdfText \o <<" ">> \o ocrResult.text)
    /\ outcome.confidence \in 0..100

\* the placeholder's words read in two halves: the structured text holds
\* the first two words, the recognition the last two, and the merge joins
\* them into the placeholder text with the confidence of structured text
C20_Witness ==
  /\ pc = "done"
  /\ pdfText = SubSeq(Placeholder, 1, 9)
  /\ Recognized
  /\ ocrResult.text = SubSeq(Placeholder, 11, 22)
  /\ ~HasPlaceholderWords(pdfText)
  /\ ~HasPlaceholderWords(ocrResult.text)
  /\ outcome.method = "hybrid"
  /\ outcome.text = Placeholder
  /\ outcome.confidence = PdfHitConfidence

(***************************************************************************)
(* The fallback return, the recognizer count and the absence of            *)
(* exceptions of extractFromBoundingBox.                                   *)
(***************************************************************************)
\* the call ended in the fallback return: the recognizer was asked and gave
\* nothing usable (it threw, or its confidence was 60 or less)
FallbackTaken ==
  /\ pc = "done"
  /\ extractCalls = 1
  /\ ocrResult.confidence <= MinOcrConfidence

\* C21 as stated: the fallback outcome is the structured text, or the
\* placeholder when that is empty, with method 'pdf' or 'ocr' accordingly and
\* hasLatex = false.
C21_FallbackShapeNoMath ==
  FallbackTaken =>
    /\ outcome.text = (IF pdfText # <<>> THEN pdfText ELSE Placeholder)
    /\ outcome.method = (IF pdfText # <<>> THEN "pdf" ELSE "ocr")
    /\ outcome.hasLatex = FALSE

\* C21: the fallback outcome is the structured text, or the placeholder
\* when that is empty, with method 'pdf' or 'ocr' accordingly, and hasLatex
\* is what detectLatex says of the structured text (false when it is empty).
C21_FallbackShape ==
  FallbackTaken =>
    /\ outcome.text = (IF pdfText # <<>> THEN pdfText ELSE Placeholder)
    /\ outcome.method = (IF pdfText # <<>> THEN "pdf" ELSE "ocr")
    /\ outcome.hasLatex = detectLatex(pdfText)
    /\ pdfText = <<>> => ~outcome.hasLatex

\* the fallback returns the short formula of the text layer, tagged as math
C21_Witness ==
  /\ FallbackTaken
  /\ pdfText = <<"$", "x", "^", "2", "$">>
  /\ outcome.method = "pdf"
  /\ outcome.hasLatex

\* C24: a call whose structured text has at most 10 characters, or whose
\* structured read threw, calls extractTextFromCanvas exactly once; a read
\* that threw leaves the structured text empty; no call asks twice.
C24_RecognizerOnce ==
  /\ (pc = "done" /\ (Len(pdfText) <= 10 \/ pdfThrew)) => extractCalls = 1
  /\ pdfThrew => (pdfText = <<>> /\ extractCalls = 1)
  /\ extractCalls <= 1
  /\ recognizeCalls <= extractCalls

\* a structured text of exactly 10 characters went to the recognizer
C24_Witness ==
  /\ pc = "done"
  /\ Len(pdfText) = 10
  /\ extractCalls = 1
  /\ recognizeCalls = 1

\* C25: every call that has ended has resolved with method 'pdf', 'ocr' or
\* 'hybrid', and a failure of the structured read or of the recognizer
\* (initialization, crop, recognition) ends the call with such an outcome.
C25_NeverRejects ==
  /\ pc = "done" => outcome.method \in {"pdf", "ocr", "hybrid"}
  /\ ocrFault # "none" =>
       (pc = "done" /\ outcome.method \in {"pdf", "ocr"})

\* the structured read threw and createWorker rejected: the call resolved
C25_Witness ==
  /\ pc = "done"
  /\ pdfThrew
  /\ ocrFault = "createWorker"
  /\ outcome.method = "ocr"

(***************************************************************************)
(* The worker handle of the OCRExtractor under interleaved calls.          *)
(***************************************************************************)
\* C28: in every reachable state of the OCRExtractor, whatever the
\* interleaving of initialize(), extractTextFromCanvas() and terminate(),
\* isInitialized = true implies that worker is not null.
C28_WorkerHandle == sharedInitialized => sharedWorker # 0

(***************************************************************************)
(* The outcome as a function of the inputs of the call.                    *)
(***************************************************************************)
\* the structured text the arguments of the call stand for: the text of the
\* region, or nothing if the read threw
StructuredOf(a, threw) ==
  IF threw \/ a.pageNumber \notin DOMAIN Pdf THEN <<>>
  ELSE StructuredText(Pdf[a.pageNumber], a.bbox, a.scale)

\* the outcome that the structured text s and the recognizer's response
\* (result r, or a fault) determine
OutcomeOf(s, r, fault) ==
  IF Len(s) > 10
    THEN [text |-> s, method |-> "pdf", confidence |-> 95,
          hasLatex |-> detectLatex(s)]
  ELSE IF fault = "none" /\ r.confidence > 60
    THEN IF s # <<>> /\ r.text # <<>>
           THEN [text |-> MergeRuleResult(s, r.text), method |-> "hybrid",
                 confidence |-> Max(95, r.confidence),
                 hasLatex |-> r.hasLatex \/ detectLatex(s)]
           ELSE [text |-> r.text, method |-> "ocr",
                 confidence |-> r.confidence, hasLatex |-> r.hasLatex]
  ELSE [text |-> IF s # <<>> THEN s ELSE Placeholder,
        method |-> IF s # <<>> THEN "pdf" ELSE "ocr",
        confidence |-> IF s # <<>> THEN 95 ELSE 0,
        hasLatex |-> detectLatex(s)]

\* C22: whatever calls came before (the worker created or not, released or
\* not), the outcome of a call is determined by its region, page, scale and
\* the recognizer's response to it; and detectLatex called again gives what
\* its text alone determines, the same as before on the same text.
C22_NoStateLeak ==
  /\ pc = "done" =>
       /\ pdfText = StructuredOf(args, pdfThrew)
       /\ outcome = OutcomeOf(pdfText, ocrResult, ocrFault)
  /\ pc = "detected" =>
       /\ pure.result = detectLatex(pure.text)
       /\ (pure.calls = 2 /\ pure.text = pure.previousText) =>
            pure.result = pure.previousResult

\* a call that returned its structured text of more than 10 characters
\* without asking the recognizer, on an extractor whose worker an earlier
\* call has initialized
C22_Witness ==
  /\ pc = "done"
  /\ isInitialized
  /\ worker = "live"
  /\ extractCalls = 0
  /\ outcome.method = "pdf"
  /\ outcome.text = pdfText

(***************************************************************************)
(* LocalStorage called directly: saveFile, saveMCQData, deleteFile,        *)
(* deleteMCQData and cleanupOldFiles, one call at a time (each is          *)
(* synchronous once its file has been read).                               *)
(***************************************************************************)
\* the variables of the page
home == <<pdfData, boundingBoxes, mcqs, isLoading, currentStep,
          currentFileId, extractionProgress, viewer, upload, runs, gestures,
          extractorRef, returned>>

\* LocalStorage.saveFile(file) resolves with a new id, or rejects after it
\* has written the file list: the list holds the new id either way
SaveFile ==
  /\ clock < MaxClock
  /\ clock' = clock + 1
  /\ storage' = saveFile(storage, <<"file", clock + 1>>)
  /\ UNCHANGED <<stateful, pure, home>>

\* LocalStorage.saveMCQData(fileId, ...) with an id that has been issued;
\* it returns a new data id
SaveMCQData(fileId) ==
  /\ clock < MaxClock
  /\ fileId[2] <= clock
  /\ clock' = clock + 1
  /\ storage' = saveMCQData(storage, fileId, <<"data", clock + 1>>)
  /\ UNCHANGED <<stateful, pure, home>>

\* LocalStorage.deleteFile(fileId)
DeleteFile(fileId) ==
  /\ fileId[2] <= clock
  /\ storage' = deleteFile(storage, fileId)
  /\ UNCHANGED <<stateful, pure, home, clock>>

\* LocalStorage.deleteMCQData(id), with a data id or with a file id
DeleteMCQData(id) ==
  /\ id[2] <= clock
  /\ storage' = deleteMCQData(storage, id)
  /\ UNCHANGED <<stateful, pure, home, clock>>

\* LocalStorage.cleanupOldFiles(daysOld): the cutoff is a time up to now
\* or, with a negative daysOld, after it
CleanupOldFiles(cutoffTime) ==
  /\ storage' = cleanupOldFiles(storage, cutoffTime)
  /\ UNCHANGED <<stateful, pure, home, clock>>

NextStorage ==
  \/ SaveFile
  \/ \E cutoffTime \in 1..(MaxClock + 1) : CleanupOldFiles(cutoffTime)
  \/ \E n \in 1..MaxClock : SaveMCQData(<<"file", n>>)
  \/ \E n \in 1..MaxClock : DeleteFile(<<"file", n>>)
  \/ \E n \in 1..MaxClock, prefix \in {"file", "data"} :
       DeleteMCQData(<<prefix, n>>)

SpecStorage == Init /\ [][NextStorage]_vars

\* the records of the MCQ-data list that were saved for file f
SavedFor(st, f) == SelectSeq(st.data, LAMBDA d : d.savedFor = f)

\* C26: when deleteFile(fileId) takes a file out of the file list, the
\* MCQ-data list holds no record afterwards that saveMCQData(fileId, ...)
\* stored, and the records stored for every other file are as before.
C26_DeleteFileRemovesData ==
  [][\A f \in storage.files :
       f \notin storage'.files =>
         /\ SavedFor(storage', f) = <<>>
         /\ \A n \in 1..MaxClock :
              <<"file", n>> # f =>
                SavedFor(storage', <<"file", n>>)
                  = SavedFor(storage, <<"file", n>>)]_vars

(***************************************************************************)
(* The page Home and its viewer, one action per handler and, in the async  *)
(* handlers, per await.  pages/index.tsx holds the page twice: with the    *)
(* HybridTextExtractor (lines 857-1484) and with the GeminiExtractor       *)
(* (lines 31-845); the effect of the first render tells which one runs.    *)
(* No handler tests extractionProgress: the progress modal is a fixed      *)
(* layer drawn over the window, which stops no keyboard event and no       *)
(* dispatched event, so every handler may run while it is shown.  What a   *)
(* button's disabled attribute and the conditions of the rendering rule    *)
(* out is in the guards.  The viewer exists while the select step is       *)
(* rendered with a document; its canvas is the only canvas of the window.  *)
(* The canvas is drawn by renderPage, which the viewer calls in an effect  *)
(* after pdf, currentPage or scale has changed and which awaits twice:     *)
(* the canvas lags behind the viewer's state, and a renderPage in flight   *)
(* when the viewer is unmounted goes on drawing on the canvas element,     *)
(* which a handleExtractText call may still hold.  State updates made in   *)
(* one continuation are rendered together (React 18).  A handler of the    *)
(* user's clicks and mouse events takes the event from gestures, which     *)
(* bounds a run.                                                           *)
(***************************************************************************)
\* the effect of the first render.  Hybrid page: textExtractorRef.current =
\* new HybridTextExtractor().  Gemini page: geminiExtractorRef.current =
\* new GeminiExtractor(storedKey) and setGeminiApiKey(storedKey) if
\* sessionStorage holds a key, else both stay empty ("null").  Both pages:
\* the effect LocalStorage.cleanupOldFiles(7), whose cutoff, seven days
\* before now, lies before or after any of the files saved so far.
Mount(version, storedKey, cutoffTime) ==
  /\ extractorRef = "unset"
  /\ version = "hybrid" => storedKey
  /\ cutoffTime <= clock + 1
  /\ storage' = cleanupOldFiles(storage, cutoffTime)
  /\ extractorRef' = IF version = "hybrid" THEN "hybrid"
                     ELSE IF storedKey THEN "gemini" ELSE "null"
  /\ UNCHANGED <<stateful, pure, pdfData, boundingBoxes, mcqs, isLoading,
                 currentStep, currentFileId, extractionProgress, viewer,
                 upload, runs, clock, gestures, returned>>

\* {currentStep === 'select' && pdfData && <PDFViewerWithOverlay ...>}:
\* the viewer after a render with this step and document; a viewer that
\* is mounted begins with useState(1) for currentPage, useState(1.5) for
\* scale, useState(true) for isLoading, useState('question') for
\* selectedType, and its effect calls loadPDF
ViewerAt(step, document) ==
  IF step = "select" /\ document # NoDocument
    THEN IF viewer # NoViewer
           THEN viewer
           ELSE [currentPage |-> 1, scale |-> DefaultScale, zooms |-> 0,
                 pdf |-> "loading", canvas |-> [page |-> 0, scale |-> 0],
                 renders |-> {}, selectedType |-> "question",
                 isDrawing |-> FALSE, startPos |-> [scale |-> 0],
                 draggedBox |-> 0]
    ELSE NoViewer

\* the handleExtractText calls after a render that leaves the viewer as
\* next: a call that holds the canvas element of a viewer now unmounted
\* holds a canvas outside the document, with the raster it had and the
\* renderPage calls still drawing on it
Detached(calls, next) ==
  IF viewer # NoViewer /\ next = NoViewer
    THEN [k \in DOMAIN calls |->
            IF calls[k].canvas.live
              THEN [calls[k] EXCEPT !.canvas = [live    |-> FALSE,
                                                raster  |-> viewer.canvas,
                                                renders |-> viewer.renders]]
              ELSE calls[k]]
    ELSE calls

\* document.querySelector('canvas') finds a canvas: the viewer is mounted
\* and past its spinner
HasCanvas == viewer # NoViewer /\ viewer.pdf # "loading"

\* the effect of [pdf, currentPage, scale]: if (pdf && canvasRef.current)
\* renderPage(pdf, currentPage, canvas, scale), up to await pdf.getPage
renderCurrentPage(v) ==
  IF v.pdf = "loaded"
    THEN [v EXCEPT !.renders = @ \cup {[pageNumber |-> v.currentPage,
                                        scale      |-> v.scale,
                                        pc         |-> "getPage"]}]
    ELSE v

\* loadPDF of the viewer settles: setPdf and setNumPages if it resolved,
\* setIsLoading(false) in finally; the canvas is rendered, and the effect
\* starts its first renderPage
ViewerLoadSettles(resolved) ==
  /\ viewer # NoViewer
  /\ viewer.pdf = "loading"
  /\ viewer' = IF resolved
                 THEN renderCurrentPage([viewer EXCEPT !.pdf = "loaded"])
                 ELSE [viewer EXCEPT !.pdf = "failed"]
  /\ UNCHANGED <<stateful, pure, pdfData, boundingBoxes, mcqs, isLoading,
                 currentStep, currentFileId, extractionProgress, upload, runs,
                 storage, clock, gestures, extractorRef, returned>>

\* an await (getPage or render) of renderPage(pdf, pageNumber, canvas,
\* scale) settles, on the canvas of the viewer (k = 0) or
\* on the canvas that call k holds of a viewer since unmounted.  After
\* pdf.getPage: canvas.height and canvas.width are set, which clears the
\* canvas, and page.render begins.  After page.render: the page is
\* painted.  A rejection is caught and logged by renderCurrentPage.
RenderSettles(k, pageNumber, scale, await, resolved) ==
  LET r == [pageNumber |-> pageNumber, scale |-> scale, pc |-> await]
      element == IF k = 0
                   THEN [raster |-> viewer.canvas, renders |-> viewer.renders]
                   ELSE [raster  |-> runs[k].canvas.raster,
                         renders |-> runs[k].canvas.renders]
      after ==
        IF ~resolved
          THEN [element EXCEPT !.renders = @ \ {r}]
        ELSE IF r.pc = "getPage"
          THEN [raster  |-> [page |-> 0, scale |-> r.scale],
                renders |-> (element.renders \ {r})
                              \cup {[r EXCEPT !.pc = "render"]}]
        ELSE [raster  |-> [element.raster EXCEPT !.page = r.pageNumber],
              renders |-> element.renders \ {r}]
  IN  /\ IF k = 0 THEN viewer # NoViewer
                  ELSE k \in DOMAIN runs /\ ~runs[k].canvas.live
      /\ r \in element.renders
      /\ IF k = 0
           THEN /\ viewer' = [viewer EXCEPT !.canvas = after.raster,
                                            !.renders = after.renders]
                /\ UNCHANGED runs
           ELSE /\ runs' = [runs EXCEPT ![k].canvas.raster = after.raster,
                                        ![k].canvas.renders = after.renders]
                /\ UNCHANGED viewer
      /\ UNCHANGED <<stateful, pure, pdfData, boundingBoxes, mcqs, isLoading,
                     currentStep, currentFileId, extractionProgress, upload,
                     storage, clock, gestures, extractorRef, returned>>

\* a click or a mouse event of the user reaches a handler of the page,
\* which has been rendered
Gesture ==
  /\ extractorRef # "unset"
  /\ gestures > 0
  /\ gestures' = gestures - 1

\* onApiKeySet of the key panel of the Gemini page: handleApiKeySet with a
\* key (setGeminiApiKey, a new GeminiExtractor) or with '' (both emptied)
ApiKeySet(newApiKey) ==
  /\ Gesture
  /\ extractorRef = IF newApiKey THEN "null" ELSE "gemini"
  /\ extractorRef' = IF newApiKey THEN "gemini" ELSE "null"
  /\ UNCHANGED <<stateful, pure, pdfData, boundingBoxes, mcqs, isLoading,
                 currentStep, currentFileId, extractionProgress, viewer,
                 upload, runs, storage, clock, returned>>

\* handleFileUpload up to its first await: setIsLoading(true), saveFile;
\* the input is disabled={isLoading}, on the Gemini page
\* disabled={isLoading || !geminiApiKey}
UploadStart ==
  /\ Gesture
  /\ currentStep = "upload"
  /\ ~isLoading
  /\ extractorRef # "null"
  /\ upload = "idle"
  /\ isLoading' = TRUE
  /\ upload' = "saving"
  /\ UNCHANGED <<stateful, pure, pdfData, boundingBoxes, mcqs, currentStep,
                 currentFileId, extractionProgress, viewer, runs, storage,
                 clock, extractorRef, returned>>

\* saveFile resolves: setCurrentFileId(fileId); await file.arrayBuffer()
UploadSaved ==
  /\ upload = "saving"
  /\ clock < MaxClock
  /\ clock' = clock + 1
  /\ storage' = saveFile(storage, <<"file", clock + 1>>)
  /\ currentFileId' = <<"file", clock + 1>>
  /\ upload' = "opening"
  /\ UNCHANGED <<stateful, pure, pdfData, boundingBoxes, mcqs, isLoading,
                 currentStep, extractionProgress, viewer, runs, gestures,
                 extractorRef, returned>>

\* getDocument resolves: setPdfData, setCurrentStep('select'), and finally
UploadOpened ==
  /\ upload = "opening"
  /\ pdfData' = [numPages |-> NumPages]
  /\ currentStep' = "select"
  /\ viewer' = ViewerAt("select", [numPages |-> NumPages])
  /\ isLoading' = FALSE
  /\ upload' = "idle"
  /\ UNCHANGED <<stateful, pure, gestures, boundingBoxes, mcqs, currentFileId,
                 extractionProgress, runs, storage, clock, extractorRef,
                 returned>>

\* saveFile, arrayBuffer or getDocument rejects: catch, and finally.
\* saveFile writes the file list before the file's data: when the second
\* setItem throws (listed), the new id stays in the list though the call
\* rejects and no currentFileId is set.
UploadFails(listed) ==
  /\ upload \in {"saving", "opening"}
  /\ IF listed
       THEN /\ upload = "saving"
            /\ clock < MaxClock
            /\ clock' = clock + 1
            /\ storage' = saveFile(storage, <<"file", clock + 1>>)
       ELSE UNCHANGED <<storage, clock>>
  /\ isLoading' = FALSE
  /\ upload' = "idle"
  /\ UNCHANGED <<stateful, pure, pdfData, boundingBoxes, mcqs, currentStep,
                 currentFileId, extractionProgress, viewer, runs, gestures,
                 extractorRef, returned>>

\* the overlay of the viewer takes the mouse: the viewer is past its
\* spinner
OverlayOpen == HasCanvas

\* onChange of the select of the type
SelectType(type) ==
  /\ Gesture
  /\ OverlayOpen
  /\ type # viewer.selectedType
  /\ viewer' = [viewer EXCEPT !.selectedType = type]
  /\ UNCHANGED <<stateful, pure, pdfData, boundingBoxes, mcqs, isLoading,
                 currentStep, currentFileId, extractionProgress, upload, runs,
                 storage, clock, extractorRef, returned>>

\* handleMouseDown on box k of the page shown (boundingBoxes.find with
\* bbox.page === currentPage): setDraggedBox; or off every such box
\* (k = 0): setIsDrawing(true), setStartPos on the raster under the overlay
MouseDown(k) ==
  /\ Gesture
  /\ OverlayOpen
  /\ IF k = 0
       THEN viewer' = [viewer EXCEPT
                         !.isDrawing = TRUE,
                         !.startPos = [scale |-> viewer.canvas.scale]]
       ELSE /\ k \in DOMAIN boundingBoxes
            /\ boundingBoxes[k].page = viewer.currentPage
            /\ viewer' = [viewer EXCEPT !.draggedBox = k]
  /\ UNCHANGED <<stateful, pure, pdfData, boundingBoxes, mcqs, isLoading,
                 currentStep, currentFileId, extractionProgress, upload, runs,
                 storage, clock, extractorRef, returned>>

\* handleMouseMove: while drawing only currentPos changes; else, with a
\* dragged box, handleBoundingBoxUpdate(draggedBox, {x, y}) places the box
\* of that id, whatever page is shown, on the raster under the overlay;
\* its width and height stay.  No box has the id of a deleted box.
MouseMove ==
  /\ Gesture
  /\ OverlayOpen
  /\ ~viewer.isDrawing
  /\ viewer.draggedBox # 0
  /\ boundingBoxes' =
       IF viewer.draggedBox \in DOMAIN boundingBoxes
         THEN [boundingBoxes EXCEPT
                 ![viewer.draggedBox].placedScale = viewer.canvas.scale]
         ELSE boundingBoxes
  /\ UNCHANGED <<stateful, pure, pdfData, mcqs, isLoading, currentStep,
                 currentFileId, extractionProgress, viewer, upload, runs,
                 storage, clock, extractorRef, returned>>

\* handleMouseUp: while drawing, a rectangle wider and higher than 10
\* (sized) goes to handleBoundingBoxCreate with selectedType and
\* currentPage, and setIsDrawing(false); setDraggedBox(null) in any case.
\* drawnScale and placedScale are not fields of the box: they remember the
\* scales of the rasters that lay under the overlay at the two corners
\* that give its width and height (down: startPos, up: this event) and
\* when its x and y were set (0: a canvas not yet sized by a render).
MouseUp(sized) ==
  /\ Gesture
  /\ OverlayOpen
  /\ viewer.isDrawing /\ sized => Len(boundingBoxes) < MaxBoxes
  /\ boundingBoxes' =
       IF viewer.isDrawing /\ sized
         THEN Append(boundingBoxes,
                     [type        |-> viewer.selectedType,
                      page        |-> viewer.currentPage,
                      drawnScale  |-> [down |-> viewer.startPos.scale,
                                       up   |-> viewer.canvas.scale],
                      placedScale |-> viewer.canvas.scale])
         ELSE boundingBoxes
  /\ viewer' = [viewer EXCEPT !.isDrawing = FALSE, !.draggedBox = 0]
  /\ UNCHANGED <<stateful, pure, pdfData, mcqs, isLoading, currentStep,
                 currentFileId, extractionProgress, upload, runs, storage,
                 clock, extractorRef, returned>>

\* handleBoundingBoxDelete, from the list of selections or a double click;
\* the boxes after box k move up one place, and so does draggedBox
DeleteBox(k) ==
  /\ Gesture
  /\ viewer # NoViewer
  /\ k \in DOMAIN boundingBoxes
  /\ boundingBoxes' = [n \in 1..(Len(boundingBoxes) - 1) |->
                         IF n < k THEN boundingBoxes[n]
                                  ELSE boundingBoxes[n + 1]]
  /\ viewer' = [viewer EXCEPT
                  !.draggedBox = IF @ = k THEN -1
                                 ELSE IF @ > k THEN @ - 1 ELSE @]
  /\ UNCHANGED <<stateful, pure, pdfData, mcqs, isLoading, currentStep,
                 currentFileId, extractionProgress, upload, runs, storage,
                 clock, extractorRef, returned>>

\* a click on a button of the viewer that sets currentPage or scale to
\* next: a state that stays as it was renders nothing and runs no effect
Clicked(next) ==
  IF next.currentPage = viewer.currentPage /\ next.scale = viewer.scale
    THEN viewer
    ELSE renderCurrentPage(next)

\* goToPreviousPage; the button is disabled on page 1
GoToPreviousPage ==
  /\ Gesture
  /\ OverlayOpen
  /\ viewer.pdf = "loaded" => Cardinality(viewer.renders) < MaxRenders
  /\ viewer.currentPage > 1
  /\ viewer' = Clicked([viewer EXCEPT !.currentPage = Max(1, @ - 1)])
  /\ UNCHANGED <<stateful, pure, pdfData, boundingBoxes, mcqs, isLoading,
                 currentStep, currentFileId, extractionProgress, upload, runs,
                 storage, clock, extractorRef, returned>>

\* goToNextPage; the button is disabled on the last page, numPages being
\* the viewer's own state: 0 until its loadPDF has resolved
GoToNextPage ==
  /\ Gesture
  /\ OverlayOpen
  /\ Cardinality(viewer.renders) < MaxRenders
  /\ viewer.pdf = "loaded"
  /\ viewer.currentPage < pdfData.numPages
  /\ viewer' = Clicked([viewer EXCEPT
                          !.currentPage = IF @ + 1 < pdfData.numPages
                                            THEN @ + 1
                                            ELSE pdfData.numPages])
  /\ UNCHANGED <<stateful, pure, pdfData, boundingBoxes, mcqs, isLoading,
                 currentStep, currentFileId, extractionProgress, upload, runs,
                 storage, clock, extractorRef, returned>>

\* zoomIn: Math.min(3, prev + 0.25)
ZoomIn ==
  /\ Gesture
  /\ OverlayOpen
  /\ viewer.pdf = "loaded" => Cardinality(viewer.renders) < MaxRenders
  /\ viewer.zooms < MaxZooms
  /\ viewer' = Clicked([viewer EXCEPT
                          !.scale = IF @ + ZoomStep < MaxScale
                                      THEN @ + ZoomStep ELSE MaxScale,
                          !.zooms = @ + 1])
  /\ UNCHANGED <<stateful, pure, pdfData, boundingBoxes, mcqs, isLoading,
                 currentStep, currentFileId, extractionProgress, upload, runs,
                 storage, clock, extractorRef, returned>>

\* zoomOut: Math.max(0.5, prev - 0.25)
ZoomOut ==
  /\ Gesture
  /\ OverlayOpen
  /\ viewer.pdf = "loaded" => Cardinality(viewer.renders) < MaxRenders
  /\ viewer.zooms < MaxZooms
  /\ viewer' = Clicked([viewer EXCEPT !.scale = Max(MinScale, @ - ZoomStep),
                                      !.zooms = @ + 1])
  /\ UNCHANGED <<stateful, pure, pdfData, boundingBoxes, mcqs, isLoading,
                 currentStep, currentFileId, extractionProgress, upload, runs,
                 storage, clock, extractorRef, returned>>

\* the step button Upload PDF
ClickUpload ==
  /\ Gesture
  /\ currentStep' = "upload"
  /\ pdfData' = NoDocument
  /\ boundingBoxes' = <<>>
  /\ mcqs' = 0
  /\ viewer' = ViewerAt("upload", NoDocument)
  /\ runs' = Detached(runs, viewer')
  /\ UNCHANGED <<stateful, pure, isLoading, currentFileId, extractionProgress,
                 upload, storage, clock, extractorRef, returned>>

\* the step button Select Regions: disabled={!pdfData}
ClickSelect ==
  /\ Gesture
  /\ pdfData # NoDocument
  /\ currentStep' = "select"
  /\ viewer' = ViewerAt("select", pdfData)
  /\ UNCHANGED <<stateful, pure, pdfData, boundingBoxes, mcqs, isLoading,
                 currentFileId, extractionProgress, upload, runs, storage,
                 clock, extractorRef, returned>>

\* the step button Edit MCQs: disabled={mcqs.length === 0}
ClickEdit ==
  /\ Gesture
  /\ mcqs > 0
  /\ currentStep' = "edit"
  /\ viewer' = ViewerAt("edit", pdfData)
  /\ runs' = Detached(runs, viewer')
  /\ UNCHANGED <<stateful, pure, pdfData, boundingBoxes, mcqs, isLoading,
                 currentFileId, extractionProgress, upload, storage, clock,
                 extractorRef, returned>>

\* handleGoBack; the button Back is rendered off the upload step
GoBack ==
  /\ Gesture
  /\ currentStep # "upload"
  /\ IF currentStep = "edit"
       THEN /\ currentStep' = "select"
            /\ viewer' = ViewerAt("select", pdfData)
            /\ UNCHANGED <<pdfData, boundingBoxes>>
       ELSE /\ currentStep' = "upload"
            /\ pdfData' = NoDocument
            /\ boundingBoxes' = <<>>
            /\ viewer' = ViewerAt("upload", NoDocument)
  /\ runs' = Detached(runs, viewer')
  /\ UNCHANGED <<stateful, pure, mcqs, isLoading, currentFileId,
                 extractionProgress, upload, storage, clock, extractorRef,
                 returned>>

\* handleReset; the button Reset is rendered while pdfData is set
Reset ==
  /\ Gesture
  /\ pdfData # NoDocument
  /\ storage' = IF currentFileId # NoFile
                  THEN deleteFile(storage, currentFileId)
                  ELSE storage
  /\ pdfData' = NoDocument
  /\ boundingBoxes' = <<>>
  /\ mcqs' = 0
  /\ currentFileId' = NoFile
  /\ currentStep' = "upload"
  /\ viewer' = ViewerAt("upload", NoDocument)
  /\ runs' = Detached(runs, viewer')
  /\ UNCHANGED <<stateful, pure, isLoading, extractionProgress, upload, clock,
                 extractorRef, returned>>

\* handleSaveProject when saveMCQData returns; the button Save is rendered
\* while there are boxes or MCQs
SaveProject ==
  /\ Gesture
  /\ Len(boundingBoxes) > 0 \/ mcqs > 0
  /\ currentFileId # NoFile
  /\ pdfData # NoDocument
  /\ clock < MaxClock
  /\ clock' = clock + 1
  /\ storage' = saveMCQData(storage, currentFileId, <<"data", clock + 1>>)
  /\ UNCHANGED <<stateful, pure, pdfData, boundingBoxes, mcqs, isLoading,
                 currentStep, currentFileId, extractionProgress, viewer,
                 upload, runs, extractorRef, returned>>

\* onMCQDelete of the editor on the edit step
DeleteMCQ ==
  /\ Gesture
  /\ currentStep = "edit"
  /\ mcqs > 0
  /\ mcqs' = mcqs - 1
  /\ UNCHANGED <<stateful, pure, pdfData, boundingBoxes, isLoading,
                 currentStep, currentFileId, extractionProgress, viewer,
                 upload, runs, storage, clock, extractorRef, returned>>

(***************************************************************************)
(* handleExtractText.  A call works on the pdfData, boundingBoxes and      *)
(* currentFileId of the render in which the button was clicked.  On the    *)
(* hybrid page the awaited extractFromBoundingBox is the extractor's call  *)
(* of the first specification; here only how it settles matters: with a    *)
(* text or with an empty text.  It never rejects, so the catch of a        *)
(* question (lines 1019-1027) is never entered.  On the Gemini page the    *)
(* awaited extractMCQFromCanvas and extractTextFromCanvas are requests to  *)
(* a service, which may reject.                                            *)
(***************************************************************************)
\* boundingBoxes.filter(bbox => bbox.type === 'question')
QuestionBoxes(boxes) == SelectSeq(boxes, LAMBDA b : b.type = "question")

\* extractFromBoundingBox(pdf, canvas, box.page, box, 1.5), the canvas
\* being the element that document.querySelector('canvas') found for the
\* question, whose pixels are read when the call comes to drawImage.
\* cropped is empty until then and holds what the canvas held then.
CallFor(kind, box) ==
  [kind       |-> kind,
   box        |-> box,
   pageNumber |-> box.page,
   scale      |-> ExtractScale,
   cropped    |-> <<>>]

\* the for loop from question box i up to its next await, or to its end:
\* setExtractionProgress, then if (!canvas) continue when the window has
\* no canvas.  Hybrid page: the call for the question.  Gemini page:
\* extractMCQFromCanvas; with geminiExtractorRef.current emptied meanwhile
\* the call throws, and so does the fallback call in the catch, whose own
\* catch leads to the delay.
RECURSIVE Visit(_, _)
Visit(run, i) ==
  LET at == [run EXCEPT !.i = i,
                        !.j = 0,
                        !.questionText = FALSE,
                        !.options = 0,
                        !.visits = Append(@, i),
                        !.canvas = [live |-> FALSE,
                                    raster |-> [page |-> 0, scale |-> 0],
                                    renders |-> {}],
                        !.call = [kind |-> "none"]]
  IN  IF i > Len(QuestionBoxes(run.boxes))
        THEN [run EXCEPT !.pc = "done", !.i = i, !.canvas = at.canvas,
                         !.call = [kind |-> "none"]]
      ELSE IF ~HasCanvas
        THEN Visit(at, i + 1)
      ELSE IF extractorRef = "hybrid"
        THEN [at EXCEPT !.pc = "question",
                        !.canvas.live = TRUE,
                        !.call = CallFor("question",
                                         QuestionBoxes(run.boxes)[i])]
      ELSE IF extractorRef = "null"
        THEN [at EXCEPT !.pc = "delay", !.failed = @ \cup {i}]
      ELSE [at EXCEPT !.pc = "mcq",
                      !.call = [kind |-> "mcq",
                                box  |-> QuestionBoxes(run.boxes)[i]]]

\* the loop over optionBoxes from option box j.  Hybrid page: after the
\* last, the push of the MCQ if (questionResult.text && options.length >
\* 0), and the next question.  Gemini page (the fallback of a question):
\* a call that throws or rejects is caught and the loop goes on; after the
\* last, the same push, and the delay.
RECURSIVE NextOption(_, _)
NextOption(run, j) ==
  LET questionBox == QuestionBoxes(run.boxes)[run.i]
      \* boundingBoxes.filter(bbox => bbox.type === 'option' && bbox.page
      \* === questionBox.page)
      optionBoxes ==
        SelectSeq(run.boxes, LAMBDA b : b.type = "option"
                                        /\ b.page = questionBox.page)
      pushed == [run EXCEPT
                   !.extracted = IF run.questionText /\ run.options > 0
                                   THEN @ + 1 ELSE @,
                   !.call = [kind |-> "none"]]
  IN  IF j > Len(optionBoxes)
        THEN IF run.pc \in {"question", "option"}
               THEN Visit(pushed, run.i + 1)
               ELSE [pushed EXCEPT !.pc = "delay"]
      ELSE IF run.pc \in {"question", "option"}
        THEN [run EXCEPT !.pc = "option",
                         !.j = j,
                         !.call = CallFor("option", optionBoxes[j])]
      ELSE IF extractorRef = "null"
        THEN NextOption(run, j + 1)
      ELSE [run EXCEPT !.pc = "fallbackOption",
                       !.j = j,
                       !.call = [kind |-> "text", box |-> optionBoxes[j]]]

\* the awaited call settles.  Hybrid page: with a text or an empty text.
\* Gemini page: extractMCQFromCanvas with a question and options ("text"),
\* without ("empty"), or rejected, which enters the catch of the question
\* and its fallback: extractTextFromCanvas for the question, whose
\* rejection is caught by the catch of the fallback, and for each option;
\* then the delay of 500 ms, and the next question.
Settle(run, settled) ==
  LET delayed == [run EXCEPT !.pc = "delay", !.call = [kind |-> "none"]]
  IN  CASE run.pc = "question" ->
             NextOption([run EXCEPT !.questionText = (settled = "text")], 1)
        [] run.pc = "option" ->
             NextOption([run EXCEPT
                           !.options = IF settled = "text" THEN @ + 1 ELSE @],
                        run.j + 1)
        [] run.pc = "mcq" ->
             IF settled = "text"
               THEN [delayed EXCEPT !.extracted = @ + 1]
             ELSE IF settled = "empty"
               THEN delayed
             ELSE IF extractorRef = "null"
               THEN [delayed EXCEPT !.failed = @ \cup {run.i}]
             ELSE [run EXCEPT
                     !.pc = "fallbackQuestion",
                     !.failed = @ \cup {run.i},
                     !.call = [kind |-> "text",
                               box  |-> QuestionBoxes(run.boxes)[run.i]]]
        [] run.pc = "fallbackQuestion" ->
             IF settled = "rejected"
               THEN delayed
               ELSE NextOption([run EXCEPT
                                  !.questionText = (settled = "text")], 1)
        [] run.pc = "fallbackOption" ->
             NextOption([run EXCEPT
                           !.options = IF settled = "text" THEN @ + 1 ELSE @],
                        run.j + 1)
        [] run.pc = "delay" -> Visit(run, run.i + 1)

\* a handler whose try had no finally: isLoading stays set after a throw
LoadingAfterUncaught(threw) == threw

\* isLoading after the outer try statement: finally { setIsLoading(false) }
LoadingAfter(threw) == FALSE

\* call k, in progress or begun by this click, goes on to its next await
\* as next; or, after the loop: setMcqs, saveMCQData if (currentFileId),
\* setCurrentStep('edit'), setExtractionProgress (complete), where a throw
\* of saveMCQData goes to the outer catch; then finally, which starts the
\* timer that will empty extractionProgress.  extractionProgress is set
\* when the call begins and by every turn of the loop.  returned keeps
\* the question boxes the loop came to.
Continue(k, next, saved) ==
  LET begun == k \notin DOMAIN runs
      shown == \/ begun
               \/ extractionProgress.shown
               \/ next.visits # runs[k].visits
  IN  IF next.pc # "done"
        THEN /\ runs' = IF begun THEN Append(runs, next)
                                 ELSE [runs EXCEPT ![k] = next]
             /\ saved
             /\ isLoading' = (begun \/ isLoading)
             /\ extractionProgress' = [extractionProgress EXCEPT
                                         !.shown = shown]
             /\ UNCHANGED <<pdfData, boundingBoxes, mcqs, currentStep,
                            currentFileId, viewer, upload, storage, clock,
                            returned>>
        ELSE /\ mcqs' = next.extracted
             /\ IF next.fileId # NoFile /\ saved
                  THEN /\ clock < MaxClock
                       /\ clock' = clock + 1
                       /\ storage' = saveMCQData(storage, next.fileId,
                                                 <<"data", clock + 1>>)
                  ELSE UNCHANGED <<storage, clock>>
             /\ next.fileId = NoFile => saved
             /\ currentStep' = IF saved THEN "edit" ELSE currentStep
             /\ viewer' = ViewerAt(currentStep', pdfData)
             /\ isLoading' = LoadingAfter(~saved)
             /\ runs' = Detached(SubSeq(runs, 1, k - 1)
                                   \o SubSeq(runs, k + 1, Len(runs)),
                                 viewer')
             /\ extractionProgress' = [shown  |-> shown \/ saved,
                                       timers |-> extractionProgress.timers
                                                    + 1]
             /\ returned' = next.visits
             /\ UNCHANGED <<pdfData, boundingBoxes, currentFileId, upload>>

\* the button Extract Text (disabled={isLoading}, on the Gemini page
\* disabled={isLoading || !geminiApiKey}), rendered with the list of
\* selections when there is a question box: handleExtractText up to its
\* first await, which on the hybrid page is pdfData.file.arrayBuffer()
\* and on the Gemini page is in the loop
ExtractStart(saved) ==
  LET run == [pc           |-> "opening",
              boxes        |-> boundingBoxes,
              fileId       |-> currentFileId,
              i            |-> 0,
              j            |-> 0,
              questionText |-> FALSE,
              options      |-> 0,
              extracted    |-> 0,
              \* the question boxes the loop has come to
              visits       |-> <<>>,
              \* the question boxes whose catch has run
              failed       |-> {},
              \* the canvas element found for the question
              canvas       |-> [live |-> FALSE,
                                raster |-> [page |-> 0, scale |-> 0],
                                renders |-> {}],
              call         |-> [kind |-> "none"]]
  IN  /\ Gesture
      /\ viewer # NoViewer
      /\ Len(QuestionBoxes(boundingBoxes)) > 0
      /\ ~isLoading
      /\ extractorRef # "null"
      /\ Continue(Len(runs) + 1,
                  IF extractorRef = "hybrid" THEN run ELSE Visit(run, 1),
                  saved)
      /\ UNCHANGED <<stateful, pure, extractorRef>>

\* arrayBuffer and getDocument resolve: the loop begins
RunOpened(k, saved) ==
  /\ k \in DOMAIN runs
  /\ runs[k].pc = "opening"
  /\ Continue(k, Visit(runs[k], 1), saved)
  /\ UNCHANGED <<stateful, pure, gestures, extractorRef>>

\* arrayBuffer or getDocument rejects: the outer catch, then finally
RunOpenFails(k) ==
  /\ k \in DOMAIN runs
  /\ runs[k].pc = "opening"
  /\ isLoading' = LoadingAfter(TRUE)
  /\ runs' = SubSeq(runs, 1, k - 1) \o SubSeq(runs, k + 1, Len(runs))
  /\ extractionProgress' = [extractionProgress EXCEPT !.timers = @ + 1]
  /\ UNCHANGED <<stateful, pure, pdfData, boundingBoxes, mcqs, currentStep,
                 currentFileId, viewer, upload, storage, clock, gestures,
                 extractorRef, returned>>

\* the awaited call of the loop settles: extractFromBoundingBox, which
\* never rejects; extractMCQFromCanvas or extractTextFromCanvas; or the
\* timer of the delay
RunSettles(k, settled, saved) ==
  /\ k \in DOMAIN runs
  /\ runs[k].pc \notin {"opening", "delay"}
       \/ (runs[k].pc = "delay" /\ settled = "empty")
  /\ settled = "rejected" =>
       runs[k].pc \in {"mcq", "fallbackQuestion", "fallbackOption"}
  /\ Continue(k, Settle(runs[k], settled), saved)
  /\ UNCHANGED <<stateful, pure, gestures, extractorRef>>

\* the awaited extractFromBoundingBox comes to the drawImage of
\* extractTextFromCanvas, after its awaits of getPage, getTextContent,
\* createWorker and setParameters: the region is cut out of what the
\* canvas element holds now, in the document or out of it.  A call that
\* returns its structured text, or fails before, never comes here.
RunCrops(k) ==
  /\ k \in DOMAIN runs
  /\ runs[k].call.kind \in {"question", "option"}
  /\ runs[k].call.cropped = <<>>
  /\ runs' = [runs EXCEPT
                ![k].call.cropped = <<IF runs[k].canvas.live
                                        THEN viewer.canvas
                                        ELSE runs[k].canvas.raster>>]
  /\ UNCHANGED <<stateful, pure, pdfData, boundingBoxes, mcqs, isLoading,
                 currentStep, currentFileId, extractionProgress, viewer,
                 upload, storage, clock, gestures, extractorRef, returned>>

\* a timer of a finally fires: setExtractionProgress(null), 2000 ms after
\* the call returned (3000 ms on the Gemini page), whatever has begun since
ProgressTimeout ==
  /\ extractionProgress.timers > 0
  /\ extractionProgress' = [shown  |-> FALSE,
                            timers |-> extractionProgress.timers - 1]
  /\ UNCHANGED <<stateful, pure, pdfData, boundingBoxes, mcqs, isLoading,
                 currentStep, currentFileId, viewer, upload, runs, storage,
                 clock, gestures, extractorRef, returned>>

\* what the awaited calls of the page and of its viewer do: they settle,
\* and an extractFromBoundingBox goes on to its crop
PageAwaits ==
  \/ \E resolved \in BOOLEAN : ViewerLoadSettles(resolved)
  \/ \E k \in 0..MaxBoxes, pageNumber \in 1..NumPages,
          scale \in MinScale..MaxScale, await \in {"getPage", "render"},
          resolved \in BOOLEAN :
       RenderSettles(k, pageNumber, scale, await, resolved)
  \/ UploadSaved
  \/ UploadOpened
  \/ \E listed \in BOOLEAN : UploadFails(listed)
  \/ \E k \in 1..MaxBoxes, saved \in BOOLEAN : RunOpened(k, saved)
  \/ \E k \in 1..MaxBoxes : RunOpenFails(k)
  \/ \E k \in 1..MaxBoxes : RunCrops(k)
  \/ \E k \in 1..MaxBoxes, settled \in {"text", "empty", "rejected"},
          saved \in BOOLEAN :
       RunSettles(k, settled, saved)

\* the page and its viewer: the effect of the first render, every handler
\* of the user's clicks, keys and mouse, every await and every timer
NextPage ==
  \/ \E version \in {"hybrid", "gemini"}, storedKey \in BOOLEAN,
          cutoffTime \in 1..(MaxClock + 1) :
       Mount(version, storedKey, cutoffTime)
  \/ \E newApiKey \in BOOLEAN : ApiKeySet(newApiKey)
  \/ UploadStart
  \/ \E type \in {"question", "option"} : SelectType(type)
  \/ \E k \in 0..MaxBoxes : MouseDown(k)
  \/ MouseMove
  \/ \E sized \in BOOLEAN : MouseUp(sized)
  \/ \E k \in 1..MaxBoxes : DeleteBox(k)
  \/ GoToPreviousPage
  \/ GoToNextPage
  \/ ZoomIn
  \/ ZoomOut
  \/ ClickUpload
  \/ ClickSelect
  \/ ClickEdit
  \/ GoBack
  \/ Reset
  \/ SaveProject
  \/ DeleteMCQ
  \/ \E saved \in BOOLEAN : ExtractStart(saved)
  \/ ProgressTimeout
  \/ PageAwaits

SpecPage == Init /\ [][NextPage]_vars

\* every awaited promise settles; the timers of the progress modal fire
SpecPageLive ==
  /\ InitLive
  /\ [][NextPage]_vars
  /\ WF_vars(PageAwaits)
  /\ WF_vars(ProgressTimeout)

(***************************************************************************)
(* Properties of the page.                                                 *)
(***************************************************************************)
\* the handleExtractText calls that await a region extraction
InFlight == {k \in DOMAIN runs : runs[k].call.kind # "none"}

\* the handleExtractText calls that await an extractFromBoundingBox
Awaiting == {k \in DOMAIN runs : runs[k].call.kind \in {"question", "option"}}

\* a handleExtractText call whose loop has begun returns in this step
LoopEnds(k) == runs[k].pc # "opening" /\ Len(runs') < Len(runs)

\* C27: while handleExtractText runs, at most one region extraction is
\* awaited at a time; when the call returns after its loop has begun,
\* the loop has come to every question box exactly once, in order, also
\* after the catch of a question has run; and, every awaited call
\* settling, isLoading is false again whether the run ended normally,
\* a question failed, or the outer try threw.
C27_RunReleasesLoading ==
  /\ [](Cardinality(InFlight) <= 1)
  /\ [][\A k \in DOMAIN runs :
          LoopEnds(k) =>
            returned' =
              [n \in 1..Len(QuestionBoxes(runs[k].boxes)) |-> n]]_vars
  /\ (runs # <<>>) ~> (~isLoading)

\* a call on the Gemini page awaits the extraction for its second question
\* box after the extraction for the first was rejected and the catch of
\* that question has run
C27_Witness ==
  \E k \in DOMAIN runs :
    /\ isLoading
    /\ runs[k].pc = "mcq"
    /\ runs[k].i = 2
    /\ 1 \in runs[k].failed

\* C23: the scale handed to extractFromBoundingBox for a region is the
\* scale of the raster that lay under the overlay when the region's pixel
\* coordinates were set, whatever zooming, drawing and extraction came
\* before.
C23_ScaleOfDrawing ==
  \A k \in Awaiting :
    /\ runs[k].call.scale = runs[k].call.box.drawnScale.down
    /\ runs[k].call.scale = runs[k].call.box.drawnScale.up
    /\ runs[k].call.scale = runs[k].call.box.placedScale

\* C29: the raster a region is cut out of, the canvas handed to
\* extractFromBoundingBox as it is when drawImage reads it, shows the
\* region's own page, the page whose structured text is read.
C29_RasterOfRegionPage ==
  \A k \in Awaiting :
    \A n \in DOMAIN runs[k].call.cropped :
      runs[k].call.cropped[n].page = runs[k].call.pageNumber

\* C30: the select step and the edit step are shown only while a document
\* is loaded.
C30_StepHasDocument ==
  currentStep \in {"select", "edit"} => pdfData # NoDocument

=============================================================================
